---- MODULE Spec2Model ----
(***************************************************************************)
(* Verification model of the KyberBusiness billing backend                 *)
(* (backend/server.py and docker-deploy/backend/server.py).                *)
(*                                                                         *)
(* Collections of the document database are variables.  Spec runs every    *)
(* quote, invoice and settings request to completion in one action;        *)
(* SpecTemplates splits the email-template handlers that await more than   *)
(* one database call into one action per call, so that concurrent requests *)
(* interleave where the handlers await; SpecTotals calls calculate_totals  *)
(* directly on bounded item lists.                                         *)
(*                                                                         *)
(* Money: amounts are exact decimals counted in thousandths of the         *)
(* currency unit (50.00 is 50000), prices are whole cents and quantities   *)
(* whole numbers, so that the 10% tax is exact.  The rounding of binary    *)
(* floating point in the last bits of a value is not modelled.             *)
(***************************************************************************)
EXTENDS Integers, Sequences, FiniteSets, Bags, TLC

VARIABLES
    variant,          \* which server file is deployed: "backend" or "docker"
    quotes,           \* db.quotes: quote id -> document
    invoices,         \* db.invoices: invoice id -> document
    nextQuoteId,      \* number of quote ids handed out by uuid4 so far
    nextInvoiceId,    \* number of invoice ids handed out by uuid4 so far
    settings,         \* db.settings: settings type -> document
    response,         \* what the last request returned, if a send or conversion
    email_templates,  \* db.email_templates: documents in insertion order
    nextTemplateId,   \* number of template ids handed out by uuid4 so far
    template_requests,\* template requests between two awaits (a bag)
    template_response,\* what the last template step returned, if anything
    calcItems,        \* argument of a direct calculate_totals call
    calcResult,       \* result of the last direct calculate_totals call
    expenses,         \* db.expenses: expense id -> document
    categories,       \* db.categories: category id -> document
    vendors,          \* db.vendors: vendor id -> document
    nextExpenseId,    \* number of expense ids handed out by uuid4 so far
    nextCategoryId,   \* number of category ids handed out by uuid4 so far
    nextVendorId,     \* number of vendor ids handed out by uuid4 so far
    expense_response, \* what the last expense, category or vendor request
                      \* returned
    send_requests,    \* send requests counted so far
    checked_sends,    \* of these, the ones that passed the SMTP check
    transport_calls,  \* calls of aiosmtplib.send counted so far
    users,            \* db.users: user id -> document
    nextUserId,       \* number of user ids handed out by uuid4 so far
    tokens,           \* the JWT payloads issued so far
    user_response,    \* what the last request that carried a token, or the
                      \* last register, returned
    observed,         \* the last observed send: what it read, what it did
    remembered,       \* an earlier observed send, for comparison
    render_args,      \* arguments of a direct call of a PDF generator
    render_result,    \* what the last direct call of a PDF generator built
    download_response,\* what the last PDF download returned
    invoice_sends,    \* send_invoice_email requests between two awaits (a bag)
    registrations,    \* register requests between find_one and insert_one
                      \* (a bag)
    branding_response \* what the last get_branding_settings returned

vars == <<variant, quotes, invoices, nextQuoteId, nextInvoiceId, settings,
          response, email_templates, nextTemplateId, template_requests,
          template_response,
          calcItems, calcResult,
          expenses, categories, vendors, nextExpenseId, nextCategoryId,
          nextVendorId, expense_response,
          send_requests, checked_sends, transport_calls,
          users, nextUserId, tokens, user_response,
          observed, remembered,
          render_args, render_result, download_response,
          invoice_sends, registrations, branding_response>>

billingVars == <<variant, quotes, invoices, nextQuoteId, nextInvoiceId,
                 settings, response>>
templateVars == <<email_templates, nextTemplateId, template_requests,
                  template_response>>
totalsVars == <<calcItems, calcResult>>
expenseVars == <<expenses, categories, vendors, nextExpenseId, nextCategoryId,
                 nextVendorId, expense_response>>
dispatchVars == <<send_requests, checked_sends, transport_calls>>
userVars == <<users, nextUserId, tokens, user_response>>
mailVars == <<observed, remembered>>
renderVars == <<render_args, render_result, download_response>>
requestVars == <<invoice_sends, registrations>>
brandingVars == <<branding_response>>

(***************************************************************************)
(* Bounds.                                                                 *)
(***************************************************************************)
MaxQuotes == 1
MaxInvoices == 1
MaxItems == 3
MaxCustomTemplates == 1
MaxTemplateRequests == 2
MaxExpenses == 1
MaxCategories == 1
MaxVendors == 1
MaxSendRequests == 3
MaxUsers == 2

(***************************************************************************)
(* Values.                                                                 *)
(***************************************************************************)
NULL == "null"                \* Python None in a string-valued field

OrEmpty(v) == IF v = NULL THEN "" ELSE v      \* Python: v or ""

QuoteIds == 1..MaxQuotes
InvoiceIds == 1..MaxInvoices

\* 10% tax, as thousandths
TaxRatePermille == 100

(***************************************************************************)
(* calculate_totals                                                        *)
(***************************************************************************)
\* dict.get(key) with the default left out, read as 0
Get_zero(item, key, default) == IF key \in DOMAIN item THEN item[key] ELSE 0

\* dict.get(key, default)
Get(item, key, default) == IF key \in DOMAIN item THEN item[key] ELSE default

\* sum(...) of the generator, left to right from 0
RECURSIVE SumFrom(_, _, _)
SumFrom(items, i, acc) ==
    IF i > Len(items) THEN acc
    ELSE SumFrom(items, i + 1,
                 acc + Get(items[i], "quantity", 1) * Get(items[i], "price", 0))

calculate_totals(items) ==
    LET subtotal == SumFrom(items, 1, 0)
        tax == (subtotal * TaxRatePermille) \div 1000
        total == subtotal + tax
    IN  <<subtotal, tax, total>>

(***************************************************************************)
(* Request bodies.  QuoteCreate and InvoiceCreate declare status as a      *)
(* plain string with default "draft": a body without the field gets the    *)
(* default, a body with it keeps whatever string it carries.               *)
(***************************************************************************)
ItemsA == <<[description |-> "Test Service", quantity |-> 2, price |-> 50000]>>
ItemsB == <<[description |-> "Hosting", price |-> 19990],
            [quantity |-> 3, price |-> -5000],
            [description |-> "Free setup", quantity |-> 4]>>

\* a body that leaves status out
BodyA == [client_name |-> "Acme", client_email |-> "client@example.com",
          client_address |-> "123 Test St", items |-> ItemsA,
          notes |-> "Test invoice", date |-> NULL]
\* a body that carries a status, and null for the optional strings
BodyB == [client_name |-> "Bolt", client_email |-> "billing@bolt.example",
          client_address |-> NULL, items |-> ItemsB,
          notes |-> NULL, date |-> "2026-01-31", status |-> "cancelled"]

Bodies == {BodyA, BodyB}

\* class QuoteCreate: the parsed body of a quote request
QuoteCreate(b) ==
    [client_name |-> b.client_name, client_email |-> b.client_email,
     client_address |-> b.client_address, items |-> b.items, notes |-> b.notes,
     valid_until |-> b.date,
     status |-> IF "status" \in DOMAIN b THEN b.status ELSE "draft"]

\* class InvoiceCreate: the parsed body of an invoice request
InvoiceCreate(b) ==
    [client_name |-> b.client_name, client_email |-> b.client_email,
     client_address |-> b.client_address, items |-> b.items, notes |-> b.notes,
     due_date |-> b.date,
     status |-> IF "status" \in DOMAIN b THEN b.status ELSE "draft"]

\* MongoDB $set: the named fields are overwritten, the others kept
Set(doc, upd) ==
    [k \in (DOMAIN doc) \cup (DOMAIN upd) |->
        IF k \in DOMAIN upd THEN upd[k] ELSE doc[k]]

\* update_one({"id": id}, {"$set": upd}) on a collection keyed by id
update_one(coll, id, upd) ==
    IF id \in DOMAIN coll THEN [coll EXCEPT ![id] = Set(coll[id], upd)] ELSE coll

\* insert_one
insert_one(coll, doc) ==
    [k \in (DOMAIN coll) \cup {doc.id} |-> IF k = doc.id THEN doc ELSE coll[k]]

\* delete_one({"id": id})
delete_one(coll, id) == [k \in (DOMAIN coll) \ {id} |-> coll[k]]

\* What a send or conversion request returned: the handler, the id in its
\* path, the HTTP status, and what became of its call to the mail transport
\* ("not called", "delivered" or "failed").  Any other request clears it.
Response(op, id, code, transport) ==
    [op |-> op, id |-> id, code |-> code, transport |-> transport]

NoResponse == Response("none", 0, 0, "not called")

\* What a step that ends a template request returned: the handler, the id in
\* its path, the HTTP status and, for a list, the templates in the body.  A
\* step that ends no request clears it.
TemplateResponse(op, id, code) ==
    [op |-> op, id |-> id, code |-> code, body |-> << >>]

NoTemplateResponse == TemplateResponse("none", NULL, 0)

\* return [EmailTemplateResponse(**t) for t in templates]
ListResponse(templates) ==
    [op |-> "list_email_templates", id |-> NULL, code |-> 200,
     body |-> templates]

\* What an expense, category or vendor request returned: the handler, the
\* expense id in its path (NULL if none), the category_id and vendor_id of
\* its body (NULL if it has no body) and the HTTP status.
ExpenseRequestResponse(op, id, category_id, vendor_id, code) ==
    [op |-> op, id |-> id, category_id |-> category_id,
     vendor_id |-> vendor_id, code |-> code]

NoExpenseResponse == ExpenseRequestResponse("none", NULL, NULL, NULL, 0)

\* What a register request, or a request that carried a token, returned:
\* the handler, the sub of the token (NULL if the request carries none) and
\* the HTTP status.
UserRequestResponse(op, sub, code) == [op |-> op, sub |-> sub, code |-> code]

NoUserResponse == UserRequestResponse("none", NULL, 0)

\* what a download returned: the HTTP status and the document in the body
DownloadResponse(op, id, code, content) ==
    [op |-> op, id |-> id, code |-> code, content |-> content]

NoDownloadResponse == DownloadResponse("none", 0, 0, << >>)

(***************************************************************************)
(* Quotes.  Every handler below is one request run to completion.          *)
(***************************************************************************)
\* "status": data.status, in create_quote and create_invoice
CreateStatus(data) == data.status

quote_doc(id, data) ==
    LET t == calculate_totals(data.items)
    IN  [id |-> id, client_name |-> data.client_name,
         client_email |-> data.client_email,
         client_address |-> OrEmpty(data.client_address),
         items |-> data.items, subtotal |-> t[1], tax |-> t[2], total |-> t[3],
         notes |-> OrEmpty(data.notes), valid_until |-> data.valid_until,
         status |-> CreateStatus(data)]

create_quote(b) ==
    /\ nextQuoteId < MaxQuotes
    /\ nextQuoteId' = nextQuoteId + 1
    /\ quotes' = insert_one(quotes, quote_doc(nextQuoteId + 1, QuoteCreate(b)))
    /\ response' = NoResponse
    /\ UNCHANGED <<variant, invoices, nextInvoiceId, settings,
                   templateVars, totalsVars, expenseVars,
                   dispatchVars, userVars, mailVars, renderVars, requestVars,
                   brandingVars>>

\* mutant: an update that stores the new items and keeps the old totals
UpdateTotals_stale(old, data) == <<old.subtotal, old.tax, old.total>>

\* the update handlers recompute the totals from the items of the request
UpdateTotals(old, data) == calculate_totals(data.items)

\* "status": data.status, in update_quote and update_invoice
UpdateStatus(old, data) == data.status

quote_update_doc(old, data) ==
    LET t == UpdateTotals(old, data)
    IN  [client_name |-> data.client_name, client_email |-> data.client_email,
         client_address |-> OrEmpty(data.client_address),
         items |-> data.items, subtotal |-> t[1], tax |-> t[2], total |-> t[3],
         notes |-> OrEmpty(data.notes), valid_until |-> data.valid_until,
         status |-> UpdateStatus(old, data)]

update_quote(id, b) ==
    /\ quotes' = IF id \in DOMAIN quotes
                 THEN update_one(quotes, id,
                                 quote_update_doc(quotes[id], QuoteCreate(b)))
                 ELSE quotes
    /\ response' = NoResponse
    /\ UNCHANGED <<variant, invoices, nextQuoteId, nextInvoiceId, settings,
                   templateVars, totalsVars, expenseVars,
                   dispatchVars, userVars, mailVars, renderVars, requestVars,
                   brandingVars>>

delete_quote(id) ==
    /\ quotes' = delete_one(quotes, id)
    /\ response' = NoResponse
    /\ UNCHANGED <<variant, invoices, nextQuoteId, nextInvoiceId, settings,
                   templateVars, totalsVars, expenseVars,
                   dispatchVars, userVars, mailVars, renderVars, requestVars,
                   brandingVars>>

\* mutant: the invoice takes over the status of the quote
converted_invoice_doc_keeps_status(id, quote) ==
    [id |-> id, client_name |-> quote.client_name,
     client_email |-> quote.client_email,
     client_address |-> quote.client_address,
     items |-> quote.items, subtotal |-> quote.subtotal, tax |-> quote.tax,
     total |-> quote.total, notes |-> quote.notes, due_date |-> NULL,
     status |-> quote.status, payment_link |-> NULL]

converted_invoice_doc(id, quote) ==
    [id |-> id, client_name |-> quote.client_name,
     client_email |-> quote.client_email,
     client_address |-> quote.client_address,
     items |-> quote.items, subtotal |-> quote.subtotal, tax |-> quote.tax,
     total |-> quote.total, notes |-> quote.notes, due_date |-> NULL,
     status |-> "draft", payment_link |-> NULL]

\* mutant: a quote is converted once
Convertible_once(quote) == quote.status # "converted"

\* the handler looks at nothing of the quote but that it is stored
Convertible(quote) == TRUE

\* convert_quote_to_invoice while fewer than max invoice ids are handed out
convert_up_to(id, max) ==
    /\ IF id \in DOMAIN quotes /\ Convertible(quotes[id])
       THEN /\ nextInvoiceId < max
            /\ nextInvoiceId' = nextInvoiceId + 1
            /\ invoices' = insert_one(invoices,
                              converted_invoice_doc(nextInvoiceId + 1, quotes[id]))
            /\ quotes' = update_one(quotes, id, [status |-> "converted"])
            /\ response' = Response("convert_quote_to_invoice", id, 200, "not called")
       ELSE /\ response' = Response("convert_quote_to_invoice", id, 404, "not called")
            /\ UNCHANGED <<quotes, invoices, nextInvoiceId>>
    /\ UNCHANGED <<variant, nextQuoteId, settings,
                   templateVars, totalsVars, expenseVars,
                   dispatchVars, userVars, mailVars, renderVars, requestVars,
                   brandingVars>>

convert_quote_to_invoice(id) == convert_up_to(id, MaxInvoices)

(***************************************************************************)
(* Invoices.                                                               *)
(***************************************************************************)
invoice_doc(id, data) ==
    LET t == calculate_totals(data.items)
    IN  [id |-> id, client_name |-> data.client_name,
         client_email |-> data.client_email,
         client_address |-> OrEmpty(data.client_address),
         items |-> data.items, subtotal |-> t[1], tax |-> t[2], total |-> t[3],
         notes |-> OrEmpty(data.notes), due_date |-> data.due_date,
         status |-> CreateStatus(data), payment_link |-> NULL]

create_invoice(b) ==
    /\ nextInvoiceId < MaxInvoices
    /\ nextInvoiceId' = nextInvoiceId + 1
    /\ invoices' = insert_one(invoices,
                              invoice_doc(nextInvoiceId + 1, InvoiceCreate(b)))
    /\ response' = NoResponse
    /\ UNCHANGED <<variant, quotes, nextQuoteId, settings,
                   templateVars, totalsVars, expenseVars,
                   dispatchVars, userVars, mailVars, renderVars, requestVars,
                   brandingVars>>

invoice_update_doc(old, data) ==
    LET t == UpdateTotals(old, data)
    IN  [client_name |-> data.client_name, client_email |-> data.client_email,
         client_address |-> OrEmpty(data.client_address),
         items |-> data.items, subtotal |-> t[1], tax |-> t[2], total |-> t[3],
         notes |-> OrEmpty(data.notes), due_date |-> data.due_date,
         status |-> UpdateStatus(old, data)]

update_invoice(id, b) ==
    /\ invoices' = IF id \in DOMAIN invoices
                   THEN update_one(invoices, id,
                              invoice_update_doc(invoices[id], InvoiceCreate(b)))
                   ELSE invoices
    /\ response' = NoResponse
    /\ UNCHANGED <<variant, quotes, nextQuoteId, nextInvoiceId, settings,
                   templateVars, totalsVars, expenseVars,
                   dispatchVars, userVars, mailVars, renderVars, requestVars,
                   brandingVars>>

delete_invoice(id) ==
    /\ invoices' = delete_one(invoices, id)
    /\ response' = NoResponse
    /\ UNCHANGED <<variant, quotes, nextQuoteId, nextInvoiceId, settings,
                   templateVars, totalsVars, expenseVars,
                   dispatchVars, userVars, mailVars, renderVars, requestVars,
                   brandingVars>>

PaymentIds == {"PAY-1"}
Now == "2026-01-15T10:00:00+00:00"   \* datetime.now(timezone.utc).isoformat()

\* mutant: the payment also clears the amount due
PaidFields_settles_total(payment_id) ==
    [status |-> "paid", payment_id |-> payment_id, paid_at |-> Now,
     total |-> 0]

\* {"$set": {"status": "paid", "payment_id": ..., "paid_at": ...}}
PaidFields(payment_id) ==
    [status |-> "paid", payment_id |-> payment_id, paid_at |-> Now]

mark_invoice_paid(id, payment_id) ==
    /\ invoices' = update_one(invoices, id, PaidFields(payment_id))
    /\ response' = NoResponse
    /\ UNCHANGED <<variant, quotes, nextQuoteId, nextInvoiceId, settings,
                   templateVars, totalsVars, expenseVars,
                   dispatchVars, userVars, mailVars, renderVars, requestVars,
                   brandingVars>>

(***************************************************************************)
(* Settings.                                                               *)
(***************************************************************************)
SMTPSettings ==
    {[host |-> "smtp.example.com", port |-> 587, username |-> "mailer",
      password |-> "encrypted:secret", from_email |-> "billing@example.com",
      from_name |-> "Billing", use_tls |-> TRUE]}

BrandingSettings ==
    {[company_name |-> "Acme", primary_color |-> "#06b6d4",
      secondary_color |-> "#d946ef"],
     [company_name |-> "Acme", primary_color |-> "teal",
      secondary_color |-> "pink"]}

\* update_one({"type": t}, {"$set": doc}, upsert=True) on db.settings
upsert_setting(coll, t, doc) ==
    [k \in (DOMAIN coll) \cup {t} |->
        IF k = t THEN (IF t \in DOMAIN coll THEN Set(coll[t], doc) ELSE doc)
        ELSE coll[k]]

save_smtp_settings(data) ==
    /\ settings' = upsert_setting(settings, "smtp", [type |-> "smtp", data |-> data])
    /\ response' = NoResponse
    /\ UNCHANGED <<variant, quotes, invoices, nextQuoteId, nextInvoiceId,
                   templateVars, totalsVars, expenseVars,
                   dispatchVars, userVars, mailVars, renderVars, requestVars,
                   brandingVars>>

\* save_branding_settings after its dependency has let the request through
save_branding_settings_body(data) ==
    /\ settings' = upsert_setting(settings, "branding",
                                  [type |-> "branding", data |-> data])
    /\ response' = NoResponse
    /\ UNCHANGED <<variant, quotes, invoices, nextQuoteId, nextInvoiceId,
                   templateVars, totalsVars, expenseVars,
                   dispatchVars, mailVars, renderVars, requestVars,
                   brandingVars>>

save_branding_settings(data) ==
    /\ save_branding_settings_body(data)
    /\ UNCHANGED userVars

(***************************************************************************)
(* Document generation, as far as it decides whether a send goes on:       *)
(* the colour strings of the branding are parsed as hexadecimal colours    *)
(* and the parse raises on any other string.                               *)
(***************************************************************************)
HexColors ==
    {"#06b6d4", "#d946ef", "#10b981", "#0891b2", "#8b5cf6", "#7c3aed",
     "#1f2937", "#374151", "#000000", "#6b7280", "#f3f4f6"}

\* colors.HexColor(c) / hex_to_rgb(c) returns
ParsesAsHex(c) == c \in HexColors

\* backend: branding_doc.get("data", {}) if branding_doc else {}
\* docker: get_branding_data(), the defaults when no document is stored
BrandingData ==
    IF "branding" \in DOMAIN settings THEN settings["branding"].data
    ELSE IF variant = "docker"
         THEN [company_name |-> "KyberBusiness", primary_color |-> "#06b6d4",
               secondary_color |-> "#d946ef"]
         ELSE << >>

\* generate_quote_pdf / create_quote_pdf raises
QuoteRenderFails(branding) ==
    IF variant = "backend"
    THEN ~ParsesAsHex(Get(branding, "primary_color", "#06b6d4"))
    ELSE ~ParsesAsHex(Get(branding, "secondary_color", "#d946ef"))

\* generate_invoice_pdf / create_invoice_pdf raises
InvoiceRenderFails(branding) ==
    IF variant = "backend"
    THEN FALSE
    ELSE ~ParsesAsHex(Get(branding, "primary_color", "#06b6d4"))

(***************************************************************************)
(* Sending.  transport_ok is the outcome of the one aiosmtplib.send call.  *)
(***************************************************************************)
SmtpConfigured ==
    IF variant = "backend"
    THEN "smtp" \in DOMAIN settings
    ELSE "smtp" \in DOMAIN settings /\ "data" \in DOMAIN settings["smtp"]

\* mutant: a send that marks the record sent whatever its status was
StatusAfterSend_always(record) == [status |-> "sent"]

\* the status write that follows a successful transport call
StatusAfterSend(record) ==
    IF record.status = "draft" THEN [status |-> "sent"] ELSE << >>

\* mutant: the status is written before the outcome of the transport is known
SendOutcome_early_write(record, render_fails, transport_ok) ==
    IF ~SmtpConfigured THEN <<400, "not called", << >> >>
    ELSE IF render_fails THEN <<500, "not called", << >> >>
    ELSE IF ~transport_ok THEN <<500, "failed", [status |-> "sent"]>>
    ELSE <<200, "delivered", [status |-> "sent"]>>

\* the part of a send handler that follows the lookup of the record:
\* <<HTTP status, transport call, fields to $set>>
SendOutcome(record, render_fails, transport_ok) ==
    IF variant = "backend"
    THEN IF ~SmtpConfigured THEN <<400, "not called", << >> >>
         ELSE IF render_fails THEN <<500, "not called", << >> >>
         ELSE IF ~transport_ok THEN <<500, "failed", << >> >>
         ELSE <<200, "delivered", StatusAfterSend(record)>>
    ELSE IF render_fails THEN <<500, "not called", << >> >>
         ELSE IF ~SmtpConfigured THEN <<400, "not called", << >> >>
         ELSE IF ~transport_ok THEN <<500, "failed", << >> >>
         ELSE <<200, "delivered", StatusAfterSend(record)>>

\* send_quote_email, without the counts of the requests and transport calls
quote_send(id, transport_ok) ==
    /\ IF id \in DOMAIN quotes
       THEN LET out == SendOutcome(quotes[id], QuoteRenderFails(BrandingData),
                                  transport_ok)
            IN  /\ quotes' = IF out[3] = << >> THEN quotes
                             ELSE update_one(quotes, id, out[3])
                /\ response' = Response("send_quote_email", id, out[1], out[2])
       ELSE /\ quotes' = quotes
            /\ response' = Response("send_quote_email", id, 404, "not called")
    /\ UNCHANGED <<variant, invoices, nextQuoteId, nextInvoiceId, settings,
                   templateVars, totalsVars, expenseVars,
                   userVars>>

send_quote_email(id, transport_ok) ==
    /\ quote_send(id, transport_ok)
    /\ UNCHANGED <<dispatchVars, mailVars, renderVars, requestVars,
                   brandingVars>>

\* send_invoice_email, without the counts of the requests and transport calls
invoice_send(id, transport_ok) ==
    /\ IF id \in DOMAIN invoices
       THEN LET out == SendOutcome(invoices[id], InvoiceRenderFails(BrandingData),
                                  transport_ok)
            IN  /\ invoices' = IF out[3] = << >> THEN invoices
                               ELSE update_one(invoices, id, out[3])
                /\ response' = Response("send_invoice_email", id, out[1], out[2])
       ELSE /\ invoices' = invoices
            /\ response' = Response("send_invoice_email", id, 404, "not called")
    /\ UNCHANGED <<variant, quotes, nextQuoteId, nextInvoiceId, settings,
                   templateVars, totalsVars, expenseVars,
                   userVars>>

send_invoice_email(id, transport_ok) ==
    /\ invoice_send(id, transport_ok)
    /\ UNCHANGED <<dispatchVars, mailVars, renderVars, requestVars,
                   brandingVars>>

(***************************************************************************)
(* The billing specification.                                              *)
(***************************************************************************)
InitBilling ==
    /\ variant \in {"backend", "docker"}
    /\ quotes = << >>
    /\ invoices = << >>
    /\ nextQuoteId = 0
    /\ nextInvoiceId = 0
    /\ settings = << >>
    /\ response = NoResponse

InitTemplates ==
    /\ email_templates = << >>
    /\ nextTemplateId = 0
    /\ template_requests = EmptyBag
    /\ template_response = NoTemplateResponse

InitTotals ==
    /\ calcItems = << >>
    /\ calcResult = << >>

InitExpenses ==
    /\ expenses = << >>
    /\ categories = << >>
    /\ vendors = << >>
    /\ nextExpenseId = 0
    /\ nextCategoryId = 0
    /\ nextVendorId = 0
    /\ expense_response = NoExpenseResponse

InitDispatch ==
    /\ send_requests = 0
    /\ checked_sends = 0
    /\ transport_calls = 0

InitUsers ==
    /\ users = << >>
    /\ nextUserId = 0
    /\ tokens = {}
    /\ user_response = NoUserResponse

InitMail ==
    /\ observed = << >>
    /\ remembered = << >>

InitRender ==
    /\ render_args = << >>
    /\ render_result = << >>
    /\ download_response = NoDownloadResponse

InitRequests ==
    /\ invoice_sends = EmptyBag
    /\ registrations = EmptyBag

InitBranding ==
    /\ branding_response = << >>

Init ==
    /\ InitBilling
    /\ InitTemplates
    /\ InitTotals
    /\ InitExpenses
    /\ InitDispatch
    /\ InitUsers
    /\ InitMail
    /\ InitRender
    /\ InitRequests
    /\ InitBranding

Next ==
    \/ \E b \in Bodies : create_quote(b)
    \/ \E id \in QuoteIds, b \in Bodies : update_quote(id, b)
    \/ \E id \in QuoteIds : delete_quote(id)
    \/ \E id \in QuoteIds : convert_quote_to_invoice(id)
    \/ \E id \in QuoteIds, ok \in BOOLEAN : send_quote_email(id, ok)
    \/ \E b \in Bodies : create_invoice(b)
    \/ \E id \in InvoiceIds, b \in Bodies : update_invoice(id, b)
    \/ \E id \in InvoiceIds : delete_invoice(id)
    \/ \E id \in InvoiceIds, p \in PaymentIds : mark_invoice_paid(id, p)
    \/ \E id \in InvoiceIds, ok \in BOOLEAN : send_invoice_email(id, ok)
    \/ \E d \in SMTPSettings : save_smtp_settings(d)
    \/ \E d \in BrandingSettings : save_branding_settings(d)

Spec == Init /\ [][Next]_vars

(***************************************************************************)
(* The send requests with their calls of the mail transport counted.       *)
(***************************************************************************)
\* the request got past "SMTP not configured": the backend file tests the
\* settings right after the lookup of the record, the docker file in
\* send_email_with_attachment, after the document has been rendered
ConfigurationCheckPassed(found, render_fails) ==
    /\ found
    /\ SmtpConfigured
    /\ variant = "docker" => ~render_fails

\* mutant: a failed transport call is tried once more
TransportCalls_retry(r) ==
    IF r.transport = "not called" THEN 0
    ELSE IF r.transport = "failed" THEN 2 ELSE 1

\* the aiosmtplib.send calls of one request: the one call in the try block
TransportCalls(r) == IF r.transport = "not called" THEN 0 ELSE 1

counted_send_quote_email(id, transport_ok) ==
    /\ send_requests < MaxSendRequests
    /\ quote_send(id, transport_ok)
    /\ send_requests' = send_requests + 1
    /\ checked_sends' = checked_sends +
          (IF ConfigurationCheckPassed(id \in DOMAIN quotes,
                                      QuoteRenderFails(BrandingData))
           THEN 1 ELSE 0)
    /\ transport_calls' = transport_calls + TransportCalls(response')
    /\ UNCHANGED <<mailVars, renderVars, requestVars, brandingVars>>

counted_send_invoice_email(id, transport_ok) ==
    /\ send_requests < MaxSendRequests
    /\ invoice_send(id, transport_ok)
    /\ send_requests' = send_requests + 1
    /\ checked_sends' = checked_sends +
          (IF ConfigurationCheckPassed(id \in DOMAIN invoices,
                                      InvoiceRenderFails(BrandingData))
           THEN 1 ELSE 0)
    /\ transport_calls' = transport_calls + TransportCalls(response')
    /\ UNCHANGED <<mailVars, renderVars, requestVars, brandingVars>>

NextDispatch ==
    \/ create_quote(BodyA)
    \/ create_invoice(BodyA)
    \/ \E d \in SMTPSettings : save_smtp_settings(d)
    \/ \E d \in BrandingSettings : save_branding_settings(d)
    \/ \E id \in QuoteIds, ok \in BOOLEAN : counted_send_quote_email(id, ok)
    \/ \E id \in InvoiceIds, ok \in BOOLEAN :
          counted_send_invoice_email(id, ok)

SpecDispatch == Init /\ [][NextDispatch]_vars

(***************************************************************************)
(* Email templates.  db.email_templates has no unique index on id: it is   *)
(* the documents in insertion order, and update_one, find_one and          *)
(* delete_one act on the first document that matches.  body_html is named  *)
(* by a token instead of spelled out.                                      *)
(***************************************************************************)
DEFAULT_TEMPLATES ==
    << [id |-> "default-professional", name |-> "Professional Invoice",
        theme |-> "professional",
        subject |-> "Invoice #{invoice_number} from KyberBusiness",
        body_html |-> "professional.html", is_default |-> TRUE],
       [id |-> "default-modern", name |-> "Modern Invoice", theme |-> "modern",
        subject |-> "Your Invoice #{invoice_number} is Ready",
        body_html |-> "modern.html", is_default |-> FALSE],
       [id |-> "default-minimal", name |-> "Minimal Invoice",
        theme |-> "minimal", subject |-> "Invoice #{invoice_number}",
        body_html |-> "minimal.html", is_default |-> FALSE],
       [id |-> "default-bold", name |-> "Bold Invoice", theme |-> "bold",
        subject |-> "INVOICE #{invoice_number} - Action Required",
        body_html |-> "bold.html", is_default |-> FALSE],
       [id |-> "default-classic", name |-> "Classic Invoice",
        theme |-> "classic",
        subject |-> "Invoice #{invoice_number} - Payment Request",
        body_html |-> "classic.html", is_default |-> FALSE] >>

\* str(uuid.uuid4()), in the order the ids are handed out
Uuids == <<"3f2b8c1e", "a71d04f6", "c95e2b70", "0d6a9e33">>

\* the ids requests name: two built-in ones, the custom ones, one nobody has
TemplateIds ==
    {"default-professional", "default-modern", "no-such-template"}
    \cup {Uuids[n] : n \in 1..MaxCustomTemplates}

\* mutant: the prefix test never matches
StartsWithDefault_never(id) == FALSE

\* id.startswith("default-")
StartsWithDefault(id) ==
    id \in {DEFAULT_TEMPLATES[k].id : k \in DOMAIN DEFAULT_TEMPLATES}

\* class EmailTemplateCreate: the parsed body of a template request
EmailTemplateCreate ==
    {[name |-> "Reminder", theme |-> "bold",
      subject |-> "Reminder: invoice #{invoice_number}",
      body_html |-> "reminder.html"]}

\* positions of the documents with this id, and the first of them
Matching(coll, id) == {i \in DOMAIN coll : coll[i].id = id}
FirstMatching(coll, id) ==
    CHOOSE i \in Matching(coll, id) : \A j \in Matching(coll, id) : i <= j

\* update_one({"id": id}, {"$set": upd}) on the email templates
template_update_one(coll, id, upd) ==
    IF Matching(coll, id) = {} THEN coll
    ELSE [coll EXCEPT ![FirstMatching(coll, id)] = Set(@, upd)]

\* update_many({}, {"$set": upd})
update_many(coll, upd) == [i \in DOMAIN coll |-> Set(coll[i], upd)]

\* delete_one({"id": id}) on the email templates
template_delete_one(coll, id) ==
    IF Matching(coll, id) = {} THEN coll
    ELSE LET i == FirstMatching(coll, id)
         IN  SubSeq(coll, 1, i - 1) \o SubSeq(coll, i + 1, Len(coll))

\* a request that has awaited its first database call and has more to make
TemplateRequest(op, id, next) == [op |-> op, id |-> id, next |-> next]

Suspend(r) ==
    /\ BagCardinality(template_requests) < MaxTemplateRequests
    /\ template_requests' = template_requests (+) SetToBag({r})

Resume(r, then) ==
    template_requests' = (template_requests (-) SetToBag({r})) (+) then

\* mutant: the test for an empty store is left out
list_email_templates_seeds_always ==
    /\ Suspend(TemplateRequest("list_email_templates", NULL, 1))
    /\ template_response' = NoTemplateResponse
    /\ UNCHANGED <<email_templates, nextTemplateId, billingVars, totalsVars,
                   expenseVars,
                   dispatchVars, userVars, mailVars, renderVars, requestVars,
                   brandingVars>>

\* list_email_templates up to its find: a store with templates is returned
\* as found, an empty store makes the request go on to insert the built-in
\* templates
list_email_templates ==
    /\ IF email_templates = << >>
       THEN /\ Suspend(TemplateRequest("list_email_templates", NULL, 1))
            /\ template_response' = NoTemplateResponse
       ELSE /\ template_response' = ListResponse(email_templates)
            /\ UNCHANGED template_requests
    /\ UNCHANGED <<email_templates, nextTemplateId, billingVars, totalsVars,
                   expenseVars,
                   dispatchVars, userVars, mailVars, renderVars, requestVars,
                   brandingVars>>

\* one insert_one of the seeding loop; after the last one the request returns
\* DEFAULT_TEMPLATES.  insert_one writes the _id it makes into the dictionary
\* it is given, and the built-in dictionaries are module globals: a second
\* insert of a built-in template whose document is stored carries the stored
\* _id and raises DuplicateKeyError (a 500), unless the two calls raced on the
\* dictionary in their executor threads or come from two server processes
\* (raced), and then a second document is stored.
list_email_templates_insert(r, raced) ==
    /\ r \in BagToSet(template_requests)
    /\ r.op = "list_email_templates"
    /\ LET t == DEFAULT_TEMPLATES[r.next]
       IN  IF Matching(email_templates, t.id) # {} /\ ~raced
           THEN /\ Resume(r, EmptyBag)
                /\ template_response' =
                       TemplateResponse("list_email_templates", NULL, 500)
                /\ UNCHANGED email_templates
           ELSE /\ email_templates' = Append(email_templates, t)
                /\ IF r.next < Len(DEFAULT_TEMPLATES)
                   THEN /\ Resume(r, SetToBag({[r EXCEPT !.next = @ + 1]}))
                        /\ template_response' = NoTemplateResponse
                   ELSE /\ Resume(r, EmptyBag)
                        /\ template_response' = ListResponse(DEFAULT_TEMPLATES)
    /\ UNCHANGED <<nextTemplateId, billingVars, totalsVars, expenseVars,
                   dispatchVars, userVars, mailVars, renderVars, requestVars,
                   brandingVars>>

create_email_template(data) ==
    /\ nextTemplateId < MaxCustomTemplates
    /\ nextTemplateId' = nextTemplateId + 1
    /\ email_templates' =
          Append(email_templates,
                 [id |-> Uuids[nextTemplateId + 1], name |-> data.name,
                  theme |-> data.theme, subject |-> data.subject,
                  body_html |-> data.body_html, is_default |-> FALSE])
    /\ template_response' =
          TemplateResponse("create_email_template",
                           Uuids[nextTemplateId + 1], 200)
    /\ UNCHANGED <<template_requests, billingVars, totalsVars, expenseVars,
                   dispatchVars, userVars, mailVars, renderVars, requestVars,
                   brandingVars>>

\* the find_one after the update_one only builds the response
update_email_template(id, data) ==
    /\ email_templates' =
          template_update_one(email_templates, id,
                              [name |-> data.name, theme |-> data.theme,
                               subject |-> data.subject,
                               body_html |-> data.body_html])
    /\ template_response' =
          TemplateResponse("update_email_template", id,
              IF Matching(email_templates, id) = {} THEN 404 ELSE 200)
    /\ UNCHANGED <<nextTemplateId, template_requests, billingVars, totalsVars,
                   expenseVars,
                   dispatchVars, userVars, mailVars, renderVars, requestVars,
                   brandingVars>>

\* set_default_template up to its update_many
set_default_template(id) ==
    /\ Suspend(TemplateRequest("set_default_template", id, 0))
    /\ email_templates' = update_many(email_templates, [is_default |-> FALSE])
    /\ template_response' = NoTemplateResponse
    /\ UNCHANGED <<nextTemplateId, billingVars, totalsVars, expenseVars,
                   dispatchVars, userVars, mailVars, renderVars, requestVars,
                   brandingVars>>

\* the update_one of set_default_template; no match is a 404 and nothing more
set_default_template_update_one(r) ==
    /\ r \in BagToSet(template_requests)
    /\ r.op = "set_default_template"
    /\ Resume(r, EmptyBag)
    /\ email_templates' =
          template_update_one(email_templates, r.id, [is_default |-> TRUE])
    /\ template_response' =
          TemplateResponse("set_default_template", r.id,
              IF Matching(email_templates, r.id) = {} THEN 404 ELSE 200)
    /\ UNCHANGED <<nextTemplateId, billingVars, totalsVars, expenseVars,
                   dispatchVars, userVars, mailVars, renderVars, requestVars,
                   brandingVars>>

\* delete_email_template up to its find_one: a stored template with a
\* built-in id is a 400, anything else goes on to delete_one
delete_email_template(id) ==
    /\ IF Matching(email_templates, id) # {} /\ StartsWithDefault(id)
       THEN /\ template_response' =
                   TemplateResponse("delete_email_template", id, 400)
            /\ UNCHANGED template_requests
       ELSE /\ template_response' = NoTemplateResponse
            /\ Suspend(TemplateRequest("delete_email_template", id, 0))
    /\ UNCHANGED <<email_templates, nextTemplateId, billingVars, totalsVars,
                   expenseVars,
                   dispatchVars, userVars, mailVars, renderVars, requestVars,
                   brandingVars>>

\* the delete_one of delete_email_template; nothing deleted is a 404
delete_email_template_delete_one(r) ==
    /\ r \in BagToSet(template_requests)
    /\ r.op = "delete_email_template"
    /\ Resume(r, EmptyBag)
    /\ email_templates' = template_delete_one(email_templates, r.id)
    /\ template_response' =
          TemplateResponse("delete_email_template", r.id,
              IF Matching(email_templates, r.id) = {} THEN 404 ELSE 200)
    /\ UNCHANGED <<nextTemplateId, billingVars, totalsVars, expenseVars,
                   dispatchVars, userVars, mailVars, renderVars, requestVars,
                   brandingVars>>

TemplateRequests ==
    {TemplateRequest("list_email_templates", NULL, k) :
        k \in DOMAIN DEFAULT_TEMPLATES}
    \cup {TemplateRequest(op, id, 0) :
            op \in {"set_default_template", "delete_email_template"},
            id \in TemplateIds}

\* the store as the first list_email_templates leaves it
InitSeeded ==
    /\ InitBilling
    /\ InitTotals
    /\ InitExpenses
    /\ InitDispatch
    /\ InitUsers
    /\ InitMail
    /\ InitRender
    /\ InitRequests
    /\ InitBranding
    /\ email_templates = DEFAULT_TEMPLATES
    /\ nextTemplateId = 0
    /\ template_requests = EmptyBag
    /\ template_response = NoTemplateResponse

\* the template requests on a seeded store
NextTemplates ==
    \/ list_email_templates
    \/ \E data \in EmailTemplateCreate : create_email_template(data)
    \/ \E id \in TemplateIds, data \in EmailTemplateCreate :
          update_email_template(id, data)
    \/ \E id \in TemplateIds : set_default_template(id)
    \/ \E r \in TemplateRequests : set_default_template_update_one(r)
    \/ \E id \in TemplateIds : delete_email_template(id)
    \/ \E r \in TemplateRequests : delete_email_template_delete_one(r)

SpecTemplates == InitSeeded /\ [][NextTemplates]_vars

\* the first reads of an empty store, next to set-default and delete requests
NextSeeding ==
    \/ list_email_templates
    \/ \E r \in TemplateRequests, raced \in BOOLEAN :
          list_email_templates_insert(r, raced)
    \/ \E id \in TemplateIds : set_default_template(id)
    \/ \E r \in TemplateRequests : set_default_template_update_one(r)
    \/ \E id \in TemplateIds : delete_email_template(id)
    \/ \E r \in TemplateRequests : delete_email_template_delete_one(r)

SpecSeeding == Init /\ [][NextSeeding]_vars

\* the template requests one at a time from an empty store: a request starts
\* when no other is between two of its awaits
NoRequestPending == template_requests = EmptyBag

NextSerial ==
    \/ NoRequestPending /\ list_email_templates
    \/ NoRequestPending
          /\ \E data \in EmailTemplateCreate : create_email_template(data)
    \/ NoRequestPending
          /\ \E id \in TemplateIds, data \in EmailTemplateCreate :
                update_email_template(id, data)
    \/ NoRequestPending /\ \E id \in TemplateIds : set_default_template(id)
    \/ NoRequestPending /\ \E id \in TemplateIds : delete_email_template(id)
    \/ \E r \in TemplateRequests :
          list_email_templates_insert(r, FALSE)
    \/ \E r \in TemplateRequests : set_default_template_update_one(r)
    \/ \E r \in TemplateRequests : delete_email_template_delete_one(r)

SpecSerial == Init /\ [][NextSerial]_vars

(***************************************************************************)
(* The mails of the send handlers.  A text is the sequence of the values   *)
(* that the handler puts into it; the id of the record stands for its      *)
(* quote_number or invoice_number.  One send, made while the templates     *)
(* are as seeded, is remembered with what it read outside                  *)
(* db.email_templates and what it did.  From then on template requests     *)
(* change the store, and the sends that read what the remembered one read  *)
(* are observed in the same way.                                           *)
(***************************************************************************)
company_name(branding) == Get(branding, "company_name", "KyberBusiness")

\* mutant: the subject is the one of the stored default template, if any
quote_message_from_template(quote, branding) ==
    LET defaults == SelectSeq(email_templates, LAMBDA t : t.is_default)
    IN  [to |-> quote.client_email,
         subject |-> IF defaults = << >>
                     THEN <<"Quote", quote.id, "from", company_name(branding)>>
                     ELSE <<defaults[1].subject>>,
         body |-> <<quote.id, quote.client_name, quote.total,
                    OrEmpty(quote.valid_until), company_name(branding)>>,
         attachment |-> [document |-> quote, branding |-> branding]]

\* the message of send_quote_email: recipient, subject, HTML body and PDF
quote_message(quote, branding) ==
    [to |-> quote.client_email,
     subject |-> <<"Quote", quote.id, "from", company_name(branding)>>,
     body |-> IF variant = "backend"
              THEN <<quote.id, quote.client_name, quote.total,
                     OrEmpty(quote.valid_until), company_name(branding)>>
              ELSE <<Get(branding, "secondary_color", "#d946ef"), quote.id,
                     quote.total,
                     IF OrEmpty(quote.valid_until) = ""
                     THEN "N/A" ELSE quote.valid_until,
                     company_name(branding)>>,
     attachment |-> [document |-> quote, branding |-> branding]]

\* the message of send_invoice_email
invoice_message(invoice, branding) ==
    [to |-> invoice.client_email,
     subject |-> <<"Invoice", invoice.id, "from", company_name(branding)>>,
     body |-> IF variant = "backend"
              THEN <<invoice.id, invoice.client_name, invoice.total,
                     IF OrEmpty(invoice.due_date) = ""
                     THEN "Upon Receipt" ELSE invoice.due_date,
                     company_name(branding)>>
              ELSE <<Get(branding, "primary_color", "#06b6d4"), invoice.id,
                     invoice.total,
                     IF OrEmpty(invoice.due_date) = ""
                     THEN "N/A" ELSE invoice.due_date,
                     company_name(branding)>>,
     attachment |-> [document |-> invoice, branding |-> branding]]

\* what a send request reads outside db.email_templates
SendInput(op, id, transport_ok) ==
    [op |-> op, id |-> id, transport_ok |-> transport_ok, variant |-> variant,
     quotes |-> quotes, invoices |-> invoices, settings |-> settings]

\* the ids of the stored templates that are marked default
DefaultTemplateIds ==
    {email_templates[i].id :
        i \in {j \in DOMAIN email_templates : email_templates[j].is_default}}

\* an observed send: its input, the templates as they were, and the result,
\* the message handed to the transport (<< >> if none) and the record after
Observation(input, result, message, record) ==
    [input |-> input, templates |-> DefaultTemplateIds,
     code |-> result.code, transport |-> result.transport,
     message |-> IF result.transport = "not called" THEN << >> ELSE message,
     record |-> record]

\* the send is observed if one is remembered, and remembered if so chosen
Observe(observation, remember) ==
    /\ remembered' = IF remember /\ remembered = << >>
                     THEN observation ELSE remembered
    /\ observed' = IF remembered' = << >> THEN << >> ELSE observation

\* nothing is remembered yet, or the request reads what the remembered read
Comparable(input) ==
    IF remembered = << >> THEN TRUE ELSE remembered.input = input

observed_send_quote_email(id, transport_ok, remember) ==
    /\ Comparable(SendInput("send_quote_email", id, transport_ok))
    /\ quote_send(id, transport_ok)
    /\ Observe(Observation(
                   SendInput("send_quote_email", id, transport_ok), response',
                   IF id \in DOMAIN quotes
                   THEN quote_message(quotes[id], BrandingData) ELSE << >>,
                   IF id \in DOMAIN quotes THEN quotes'[id] ELSE << >>),
               remember)
    /\ UNCHANGED <<dispatchVars, renderVars, requestVars, brandingVars>>

observed_send_invoice_email(id, transport_ok, remember) ==
    /\ Comparable(SendInput("send_invoice_email", id, transport_ok))
    /\ invoice_send(id, transport_ok)
    /\ Observe(Observation(
                   SendInput("send_invoice_email", id, transport_ok),
                   response',
                   IF id \in DOMAIN invoices
                   THEN invoice_message(invoices[id], BrandingData)
                   ELSE << >>,
                   IF id \in DOMAIN invoices THEN invoices'[id] ELSE << >>),
               remember)
    /\ UNCHANGED <<dispatchVars, renderVars, requestVars, brandingVars>>

NothingRemembered == remembered = << >>

NextDirectSend ==
    \/ NothingRemembered /\ create_quote(BodyA)
    \/ NothingRemembered /\ create_invoice(BodyB)
    \/ NothingRemembered /\ \E d \in SMTPSettings : save_smtp_settings(d)
    \/ \E id \in QuoteIds, ok, remember \in BOOLEAN :
          observed_send_quote_email(id, ok, remember)
    \/ \E id \in InvoiceIds, ok, remember \in BOOLEAN :
          observed_send_invoice_email(id, ok, remember)
    \/ ~NothingRemembered /\ NoRequestPending
          /\ \E data \in EmailTemplateCreate :
                update_email_template("default-professional", data)
    \/ ~NothingRemembered /\ NoRequestPending
          /\ \E id \in TemplateIds : set_default_template(id)
    \/ \E r \in TemplateRequests : set_default_template_update_one(r)

SpecDirectSend == InitSeeded /\ [][NextDirectSend]_vars

(***************************************************************************)
(* Expenses, categories and vendors.  Every handler is one step: the       *)
(* handlers of this section read and write their collections without       *)
(* another request in between.                                             *)
(***************************************************************************)
ExpenseUuids == <<"e4b1d2a0", "e9c07f35">>
CategoryUuids == <<"c2f6a1b8", "c7d3e940">>
VendorUuids == <<"b5a8c3d1", "b0e4f792">>

\* the ids requests name: the ones handed out, and one nobody has
ExpenseIds == {ExpenseUuids[n] : n \in 1..MaxExpenses} \cup {"no-such-expense"}
CategoryIds ==
    {CategoryUuids[n] : n \in 1..MaxCategories} \cup {"no-such-category"}
VendorIds == {VendorUuids[n] : n \in 1..MaxVendors} \cup {"no-such-vendor"}

\* class ExpenseCreate: the parsed bodies of expense requests; vendor_id is
\* Optional[str] = None
ExpenseCreate ==
    [description : {"Printer paper", "Toner"}, amount : {49990},
     category_id : CategoryIds, vendor_id : VendorIds \cup {NULL, ""},
     date : {"2026-01-15"}, notes : {NULL}]

\* class CategoryCreate
CategoryCreate == [name |-> "Office", color |-> "#06b6d4"]

\* class VendorCreate
VendorCreate == [name |-> "Staples", email |-> "vendor@example.com",
                 phone |-> NULL, address |-> NULL]

\* user["id"] of the caller
CallerId == "user-1"

\* Python truth value of an Optional[str]
Truthy(v) == v # NULL /\ v # ""

\* vendor_name = None; if data.vendor_id: vendor = find_one(...);
\* if vendor: vendor_name = vendor["name"]
vendor_name(data) ==
    IF Truthy(data.vendor_id) /\ data.vendor_id \in DOMAIN vendors
    THEN vendors[data.vendor_id].name
    ELSE NULL

expense_doc(id, data) ==
    [id |-> id, description |-> data.description, amount |-> data.amount,
     category_id |-> data.category_id,
     category_name |-> categories[data.category_id].name,
     vendor_id |-> data.vendor_id, vendor_name |-> vendor_name(data),
     date |-> data.date, notes |-> OrEmpty(data.notes), receipt_url |-> NULL,
     created_at |-> Now, created_by |-> CallerId]

create_expense(data) ==
    /\ nextExpenseId < MaxExpenses
    /\ IF data.category_id \notin DOMAIN categories
       THEN /\ expense_response' =
                 ExpenseRequestResponse("create_expense", NULL,
                                        data.category_id, data.vendor_id, 400)
            /\ UNCHANGED <<expenses, nextExpenseId>>
       ELSE /\ expenses' =
                 insert_one(expenses,
                            expense_doc(ExpenseUuids[nextExpenseId + 1], data))
            /\ nextExpenseId' = nextExpenseId + 1
            /\ expense_response' =
                 ExpenseRequestResponse("create_expense", NULL,
                                        data.category_id, data.vendor_id, 200)
    /\ UNCHANGED <<categories, vendors, nextCategoryId, nextVendorId,
                   billingVars, templateVars, totalsVars,
                   dispatchVars, userVars, mailVars, renderVars, requestVars,
                   brandingVars>>

expense_update_doc(data) ==
    [description |-> data.description, amount |-> data.amount,
     category_id |-> data.category_id,
     category_name |-> categories[data.category_id].name,
     vendor_id |-> data.vendor_id, vendor_name |-> vendor_name(data),
     date |-> data.date, notes |-> OrEmpty(data.notes)]

update_expense(id, data) ==
    /\ IF data.category_id \notin DOMAIN categories
       THEN /\ expense_response' =
                 ExpenseRequestResponse("update_expense", id,
                                        data.category_id, data.vendor_id, 400)
            /\ UNCHANGED expenses
       ELSE /\ expenses' = update_one(expenses, id, expense_update_doc(data))
            /\ expense_response' =
                 ExpenseRequestResponse("update_expense", id,
                                        data.category_id, data.vendor_id,
                                        IF id \in DOMAIN expenses
                                        THEN 200 ELSE 404)
    /\ UNCHANGED <<categories, vendors, nextExpenseId, nextCategoryId,
                   nextVendorId, billingVars, templateVars, totalsVars,
                   dispatchVars, userVars, mailVars, renderVars, requestVars,
                   brandingVars>>

delete_expense(id) ==
    /\ expenses' = delete_one(expenses, id)
    /\ expense_response' =
         ExpenseRequestResponse("delete_expense", id, NULL, NULL,
                                IF id \in DOMAIN expenses THEN 200 ELSE 404)
    /\ UNCHANGED <<categories, vendors, nextExpenseId, nextCategoryId,
                   nextVendorId, billingVars, templateVars, totalsVars,
                   dispatchVars, userVars, mailVars, renderVars, requestVars,
                   brandingVars>>

\* create_category after its dependency has let the request through
create_category_body(data) ==
    /\ nextCategoryId < MaxCategories
    /\ categories' =
         insert_one(categories,
                    [id |-> CategoryUuids[nextCategoryId + 1],
                     name |-> data.name, color |-> data.color])
    /\ nextCategoryId' = nextCategoryId + 1
    /\ expense_response' =
         ExpenseRequestResponse("create_category", NULL, NULL, NULL, 200)
    /\ UNCHANGED <<expenses, vendors, nextExpenseId, nextVendorId,
                   billingVars, templateVars, totalsVars,
                   dispatchVars, mailVars, renderVars, requestVars,
                   brandingVars>>

create_category(data) ==
    /\ create_category_body(data)
    /\ UNCHANGED userVars

delete_category(category_id) ==
    /\ categories' = delete_one(categories, category_id)
    /\ expense_response' =
         ExpenseRequestResponse("delete_category", NULL, NULL, NULL,
                                IF category_id \in DOMAIN categories
                                THEN 200 ELSE 404)
    /\ UNCHANGED <<expenses, vendors, nextExpenseId, nextCategoryId,
                   nextVendorId, billingVars, templateVars, totalsVars,
                   dispatchVars, userVars, mailVars, renderVars, requestVars,
                   brandingVars>>

create_vendor(data) ==
    /\ nextVendorId < MaxVendors
    /\ vendors' =
         insert_one(vendors,
                    [id |-> VendorUuids[nextVendorId + 1], name |-> data.name,
                     email |-> OrEmpty(data.email),
                     phone |-> OrEmpty(data.phone),
                     address |-> OrEmpty(data.address)])
    /\ nextVendorId' = nextVendorId + 1
    /\ expense_response' =
         ExpenseRequestResponse("create_vendor", NULL, NULL, NULL, 200)
    /\ UNCHANGED <<expenses, categories, nextExpenseId, nextCategoryId,
                   billingVars, templateVars, totalsVars,
                   dispatchVars, userVars, mailVars, renderVars, requestVars,
                   brandingVars>>

delete_vendor(vendor_id) ==
    /\ vendors' = delete_one(vendors, vendor_id)
    /\ expense_response' =
         ExpenseRequestResponse("delete_vendor", NULL, NULL, NULL,
                                IF vendor_id \in DOMAIN vendors
                                THEN 200 ELSE 404)
    /\ UNCHANGED <<expenses, categories, nextExpenseId, nextCategoryId,
                   nextVendorId, billingVars, templateVars, totalsVars,
                   dispatchVars, userVars, mailVars, renderVars, requestVars,
                   brandingVars>>

NextExpenses ==
    \/ \E data \in ExpenseCreate : create_expense(data)
    \/ \E id \in ExpenseIds, data \in ExpenseCreate : update_expense(id, data)
    \/ \E id \in ExpenseIds : delete_expense(id)
    \/ create_category(CategoryCreate)
    \/ \E id \in CategoryIds : delete_category(id)
    \/ create_vendor(VendorCreate)
    \/ \E id \in VendorIds : delete_vendor(id)

SpecExpenses == Init /\ [][NextExpenses]_vars

(***************************************************************************)
(* Users and the dependencies that guard the routes.  A request is one     *)
(* step: the dependency reads db.users and the handler runs without        *)
(* another request in between.  An email address is a sequence of pieces   *)
(* of its text, so that "ends with" is a test on the text.                 *)
(***************************************************************************)
UserUuids == <<"u1a4c9e2", "u8d3b7f0", "u5e2a6c1">>

\* the ids requests name: the ones handed out, and one nobody has
UserIds == {UserUuids[n] : n \in 1..MaxUsers} \cup {"no-such-user"}

\* class UserRole
Roles == {"admin", "accountant", "viewer"}

\* class RoleUpdate: role is any string
RoleUpdate == Roles \cup {"owner"}

Emails ==
    {<<"admin", "@", "thestarforge.org">>,
     <<"viewer", "@", "example.com">>,
     <<"eve", "@", "not", "thestarforge.org">>}

\* class UserCreate
UserCreate == [email : Emails, name : {"Test User"}]

\* str.endswith
EndsWith(str, suffix) ==
    /\ Len(str) >= Len(suffix)
    /\ SubSeq(str, Len(str) - Len(suffix) + 1, Len(str)) = suffix

\* mutant: the test leaves out the @
is_admin_without_at(email) == EndsWith(email, <<"thestarforge.org">>)

\* is_admin = data.email.endswith("@thestarforge.org")
is_admin(email) == EndsWith(email, <<"@", "thestarforge.org">>)

\* create_token: the payload of the JWT
create_token(user_id, email, role) ==
    [sub |-> user_id, email |-> email, role |-> role]

\* find_one({"email": email}): the ids of the users stored with this address
WithEmail(email) == {id \in DOMAIN users : users[id].email = email}

register(data) ==
    /\ IF WithEmail(data.email) # {}
       THEN /\ user_response' =
                 UserRequestResponse("register", NULL, 400)
            /\ UNCHANGED <<users, nextUserId, tokens>>
       ELSE LET user_id == UserUuids[nextUserId + 1]
                role == IF is_admin(data.email) THEN "admin" ELSE "viewer"
            IN  /\ nextUserId < MaxUsers
                /\ nextUserId' = nextUserId + 1
                /\ users' = insert_one(users,
                                [id |-> user_id, email |-> data.email,
                                 name |-> data.name, role |-> role,
                                 email_verified |-> FALSE])
                /\ tokens' = tokens \cup
                                {create_token(user_id, data.email, role)}
                /\ user_response' =
                     UserRequestResponse("register", NULL, 200)
    /\ UNCHANGED <<billingVars, templateVars, totalsVars, expenseVars,
                   dispatchVars, mailVars, renderVars, requestVars,
                   brandingVars>>

\* mutant: the user is taken from the payload of the token
get_current_user_from_payload(token) ==
    [id |-> token.sub, email |-> token.email, role |-> token.role]

\* user = await db.users.find_one({"id": user_id}), for a stored user
get_current_user(token) == users[token.sub]

\* the HTTP status of the dependency, 200 if it lets the request through
require_admin(token) ==
    IF token.sub \notin DOMAIN users THEN 401
    ELSE IF get_current_user(token).role # "admin" THEN 403
    ELSE 200

require_accountant_or_admin(token) ==
    IF token.sub \notin DOMAIN users THEN 401
    ELSE IF get_current_user(token).role \notin {"admin", "accountant"}
         THEN 403
    ELSE 200

update_user_role(token, user_id, role) ==
    LET code == require_admin(token)
    IN  /\ IF code # 200
           THEN /\ user_response' =
                     UserRequestResponse("update_user_role", token.sub, code)
                /\ UNCHANGED users
           ELSE IF role \notin Roles
           THEN /\ user_response' =
                     UserRequestResponse("update_user_role", token.sub, 400)
                /\ UNCHANGED users
           ELSE /\ users' = update_one(users, user_id, [role |-> role])
                /\ user_response' =
                     UserRequestResponse("update_user_role", token.sub,
                                         IF user_id \in DOMAIN users
                                         THEN 200 ELSE 404)
        /\ UNCHANGED <<nextUserId, tokens, billingVars, templateVars,
                       totalsVars, expenseVars, dispatchVars, mailVars,
                       renderVars, requestVars, brandingVars>>

delete_user(token, user_id) ==
    LET code == require_admin(token)
    IN  /\ IF code # 200
           THEN /\ user_response' =
                     UserRequestResponse("delete_user", token.sub, code)
                /\ UNCHANGED users
           ELSE IF get_current_user(token).id = user_id
           THEN /\ user_response' =
                     UserRequestResponse("delete_user", token.sub, 400)
                /\ UNCHANGED users
           ELSE /\ users' = delete_one(users, user_id)
                /\ user_response' =
                     UserRequestResponse("delete_user", token.sub,
                                         IF user_id \in DOMAIN users
                                         THEN 200 ELSE 404)
        /\ UNCHANGED <<nextUserId, tokens, billingVars, templateVars,
                       totalsVars, expenseVars, dispatchVars, mailVars,
                       renderVars, requestVars, brandingVars>>

\* create_category with its dependency, require_accountant_or_admin
authorized_create_category(token, data) ==
    LET code == require_accountant_or_admin(token)
    IN  /\ IF code = 200
           THEN create_category_body(data)
           ELSE UNCHANGED <<billingVars, templateVars, totalsVars,
                            expenseVars, dispatchVars, mailVars, renderVars,
                            requestVars, brandingVars>>
        /\ user_response' =
             UserRequestResponse("create_category", token.sub, code)
        /\ UNCHANGED <<users, nextUserId, tokens>>

\* save_branding_settings with its dependency, require_admin
authorized_save_branding_settings(token, data) ==
    LET code == require_admin(token)
    IN  /\ IF code = 200
           THEN save_branding_settings_body(data)
           ELSE UNCHANGED <<billingVars, templateVars, totalsVars,
                            expenseVars, dispatchVars, mailVars, renderVars,
                            requestVars, brandingVars>>
        /\ user_response' =
             UserRequestResponse("save_branding_settings", token.sub, code)
        /\ UNCHANGED <<users, nextUserId, tokens>>

NextUsers ==
    \/ \E data \in UserCreate : register(data)
    \/ \E token \in tokens, id \in UserIds, role \in RoleUpdate :
          update_user_role(token, id, role)
    \/ \E token \in tokens, id \in UserIds : delete_user(token, id)
    \/ \E token \in tokens : authorized_create_category(token, CategoryCreate)
    \/ \E token \in tokens, d \in BrandingSettings :
          authorized_save_branding_settings(token, d)

\* the guards are the same in both server files
InitGuarded == Init /\ variant = "backend"

SpecUsers == InitGuarded /\ [][NextUsers]_vars

(***************************************************************************)
(* register between its two awaits: the find_one by email and the          *)
(* insert_one of the new user.  db.users has no index besides _id.         *)
(***************************************************************************)
MaxPendingRegistrations == 2

\* existing = await db.users.find_one({"email": data.email})
register_find_one(data) ==
    /\ IF WithEmail(data.email) # {}
       THEN /\ user_response' = UserRequestResponse("register", NULL, 400)
            /\ UNCHANGED registrations
       ELSE /\ BagCardinality(registrations) < MaxPendingRegistrations
            /\ registrations' = registrations (+) SetToBag({data})
            /\ user_response' = NoUserResponse
    /\ UNCHANGED <<users, nextUserId, tokens, invoice_sends, billingVars,
                   templateVars, totalsVars, expenseVars, dispatchVars,
                   mailVars, renderVars, brandingVars>>

\* await db.users.insert_one(user_doc), and the token that is returned
register_insert_one(data) ==
    /\ data \in BagToSet(registrations)
    /\ nextUserId < MaxUsers
    /\ registrations' = registrations (-) SetToBag({data})
    /\ LET user_id == UserUuids[nextUserId + 1]
           role == IF is_admin(data.email) THEN "admin" ELSE "viewer"
       IN  /\ nextUserId' = nextUserId + 1
           /\ users' = insert_one(users,
                           [id |-> user_id, email |-> data.email,
                            name |-> data.name, role |-> role,
                            email_verified |-> FALSE])
           /\ tokens' = tokens \cup {create_token(user_id, data.email, role)}
           /\ user_response' = UserRequestResponse("register", NULL, 200)
    /\ UNCHANGED <<invoice_sends, billingVars, templateVars, totalsVars,
                   expenseVars, dispatchVars, mailVars, renderVars,
                   brandingVars>>

NextRegister ==
    \/ \E data \in UserCreate : register_find_one(data)
    \/ \E data \in UserCreate : register_insert_one(data)
    \/ \E t \in tokens, id \in UserIds : delete_user(t, id)

SpecRegister == InitGuarded /\ [][NextRegister]_vars

(***************************************************************************)
(* Direct calls of calculate_totals on item lists.                         *)
(***************************************************************************)
Items ==
    << [quantity |-> 2, price |-> 50000],
       [description |-> "Hosting", price |-> 19990],
       [quantity |-> 3, price |-> -5000],
       [description |-> "Free setup", quantity |-> 4],
       [description |-> "Support", quantity |-> 0, price |-> 12340] >>

\* the lists of at most MaxItems items, each in its first order; the other
\* orders come from reorder_items
ItemLists ==
    UNION {{[i \in 1..n |-> Items[f[i]]] :
              f \in {g \in [1..n -> DOMAIN Items] :
                        \A i \in 1..n, j \in 1..n : i < j => g[i] <= g[j]}} :
           n \in 0..MaxItems}

InitCalls ==
    /\ InitBilling
    /\ InitTemplates
    /\ InitExpenses
    /\ InitDispatch
    /\ InitUsers
    /\ InitMail
    /\ InitRender
    /\ InitRequests
    /\ InitBranding
    /\ calcItems \in ItemLists
    /\ calcResult = << >>

\* result = calculate_totals(items)
call_calculate_totals ==
    /\ calcResult' = calculate_totals(calcItems)
    /\ UNCHANGED <<calcItems, billingVars, templateVars, expenseVars,
                   dispatchVars, userVars, mailVars, renderVars, requestVars,
                   brandingVars>>

\* the caller hands the same items over in another order
reorder_items(i) ==
    /\ i < Len(calcItems)
    /\ calcItems' = [calcItems EXCEPT ![i] = calcItems[i + 1],
                                      ![i + 1] = calcItems[i]]
    /\ UNCHANGED <<calcResult, billingVars, templateVars, expenseVars,
                   dispatchVars, userVars, mailVars, renderVars, requestVars,
                   brandingVars>>

NextTotals ==
    \/ call_calculate_totals
    \/ \E i \in 1..MaxItems : reorder_items(i)

SpecTotals == InitCalls /\ [][NextTotals]_vars

(***************************************************************************)
(* Document generation of src/backend/server.py.  A generated document is  *)
(* the list of flowables handed to doc.build, each with the text and the   *)
(* style it was built with; a generator that raises builds nothing.        *)
(***************************************************************************)
PDF_TEMPLATES ==
    [professional |-> [name |-> "Professional", primary_color |-> "#06b6d4",
                       secondary_color |-> "#0891b2", header_bg |-> "#06b6d4",
                       font |-> "Helvetica"],
     modern |-> [name |-> "Modern", primary_color |-> "#8b5cf6",
                 secondary_color |-> "#7c3aed", header_bg |-> "#8b5cf6",
                 font |-> "Helvetica"],
     classic |-> [name |-> "Classic", primary_color |-> "#1f2937",
                  secondary_color |-> "#374151", header_bg |-> "#1f2937",
                  font |-> "Times-Roman"],
     minimal |-> [name |-> "Minimal", primary_color |-> "#000000",
                  secondary_color |-> "#6b7280", header_bg |-> "#f3f4f6",
                  font |-> "Helvetica"]]

\* mutant: an unknown theme id falls back to the theme minimal
PdfTemplate_minimal(template) ==
    IF template \in DOMAIN PDF_TEMPLATES THEN PDF_TEMPLATES[template]
    ELSE PDF_TEMPLATES["minimal"]

\* PDF_TEMPLATES.get(template, PDF_TEMPLATES["professional"])
PdfTemplate(template) ==
    IF template \in DOMAIN PDF_TEMPLATES THEN PDF_TEMPLATES[template]
    ELSE PDF_TEMPLATES["professional"]

\* the pieces of a formatted string: a literal or a string value, str(n),
\* and f"${n:.2f}"
Text(s) == [s |-> s, n |-> 0]
Str(n) == [s |-> "str", n |-> n]
Money(n) == [s |-> "$.2f", n |-> n]

\* created_at[:10], the date of an ISO timestamp
Date(created_at) == IF created_at = Now THEN "2026-01-15" ELSE created_at

\* status.upper()
Upper(status) ==
    CASE status = "draft" -> "DRAFT"
      [] status = "sent" -> "SENT"
      [] status = "paid" -> "PAID"
      [] status = "overdue" -> "OVERDUE"
      [] status = "cancelled" -> "CANCELLED"
      [] OTHER -> "CONVERTED"

\* Paragraph(text, style), Spacer(1, height), Table(data) with its TableStyle
Paragraph(text, style) == [kind |-> "Paragraph", rows |-> <<text>>, style |-> style]
Spacer(height) == [kind |-> "Spacer", rows |-> << >>, style |-> [height |-> height]]
Table(data, style) == [kind |-> "Table", rows |-> data, style |-> style]

\* f'{font}-Bold' if font == "Helvetica" else font
BoldFont(font) == IF font = "Helvetica" THEN "Helvetica-Bold" ELSE font

\* the rows of the items table: header, one row per item, the three totals
table_data(doc, total_label) ==
    <<<<Text("Description"), Text("Qty"), Text("Price"), Text("Total")>>>>
    \o [i \in 1..Len(doc.items) |->
          LET item == doc.items[i]
              qty == Get(item, "quantity", 1)
              price == Get(item, "price", 0)
          IN  <<Text(Get(item, "description", "")), Str(qty), Money(price),
                Money(qty * price)>>]
    \o <<<<Text(""), Text(""), Text("Subtotal:"), Money(doc.subtotal)>>,
         <<Text(""), Text(""), Text("Tax (10%):"), Money(doc.tax)>>,
         <<Text(""), Text(""), Text(total_label), Money(doc.total)>>>>

\* what a generator that raised leaves behind, and what one that returned
Raised == [raised |-> TRUE, elements |-> << >>]
Built(elements) == [raised |-> FALSE, elements |-> elements]

\* "if branding" is false for None and for the empty dict
generate_quote_pdf(quote, branding, template) ==
    LET tmpl == PdfTemplate(template)
        color == IF branding # << >>
                 THEN Get(branding, "primary_color", tmpl.primary_color)
                 ELSE tmpl.primary_color
        text_color == IF template # "minimal" THEN "white" ELSE "#1f2937"
        company == IF branding # << >>
                   THEN Get(branding, "company_name", "KyberBusiness")
                   ELSE "KyberBusiness"
        normal_style == [fontName |-> tmpl.font]
    IN  IF ~ParsesAsHex(color) THEN Raised
        ELSE Built(
          <<Paragraph(<<Text(company)>>,
                      [name |-> "Title", textColor |-> color,
                       fontName |-> tmpl.font]),
            Paragraph(<<Text("QUOTE: "), Text(quote.quote_number)>>,
                      [name |-> "Header", fontName |-> tmpl.font]),
            Spacer(12),
            Paragraph(<<Text("Client:"), Text(quote.client_name)>>, normal_style),
            Paragraph(<<Text("Email:"), Text(quote.client_email)>>, normal_style)>>
          \o (IF Truthy(quote.client_address)
              THEN <<Paragraph(<<Text("Address:"), Text(quote.client_address)>>,
                               normal_style)>>
              ELSE << >>)
          \o <<Paragraph(<<Text("Date:"), Text(Date(quote.created_at))>>,
                         normal_style)>>
          \o (IF Truthy(quote.valid_until)
              THEN <<Paragraph(<<Text("Valid Until:"), Text(quote.valid_until)>>,
                               normal_style)>>
              ELSE << >>)
          \o <<Spacer(20),
               Table(table_data(quote, "Total:"),
                     [header_bg |-> tmpl.header_bg, text_color |-> text_color,
                      header_font |-> BoldFont(tmpl.font),
                      total_color |-> color])>>
          \o (IF Truthy(quote.notes)
              THEN <<Spacer(20),
                     Paragraph(<<Text("Notes:")>>, normal_style),
                     Paragraph(<<Text(quote.notes)>>, normal_style)>>
              ELSE << >>))

\* the position of the payment link among the blocks that follow the table
PayOnline(payment_link) ==
    IF Truthy(payment_link)
    THEN <<Spacer(20),
           Paragraph(<<Text("Pay Online:"), Text(payment_link)>>,
                     [name |-> "Link", textColor |-> "#06b6d4"])>>
    ELSE << >>

Notes(doc, style) ==
    IF Truthy(doc.notes)
    THEN <<Spacer(20), Paragraph(<<Text("Notes:")>>, style),
           Paragraph(<<Text(doc.notes)>>, style)>>
    ELSE << >>

generate_invoice_pdf(invoice, branding, payment_link) ==
    LET company == IF branding # << >>
                   THEN Get(branding, "company_name", "KyberBusiness")
                   ELSE "KyberBusiness"
        normal_style == [name |-> "Normal"]
    IN  Built(
          <<Paragraph(<<Text(company)>>,
                      [name |-> "Title", textColor |-> "#06b6d4"]),
            Paragraph(<<Text("INVOICE: "), Text(invoice.invoice_number)>>,
                      [name |-> "Header"]),
            Spacer(12),
            Paragraph(<<Text("Bill To:"), Text(invoice.client_name)>>,
                      normal_style),
            Paragraph(<<Text("Email:"), Text(invoice.client_email)>>,
                      normal_style)>>
          \o (IF Truthy(invoice.client_address)
              THEN <<Paragraph(<<Text("Address:"),
                                 Text(invoice.client_address)>>, normal_style)>>
              ELSE << >>)
          \o <<Paragraph(<<Text("Invoice Date:"),
                           Text(Date(invoice.created_at))>>, normal_style)>>
          \o (IF Truthy(invoice.due_date)
              THEN <<Paragraph(<<Text("Due Date:"), Text(invoice.due_date)>>,
                               normal_style)>>
              ELSE << >>)
          \o <<Paragraph(<<Text("Status:"), Text(Upper(invoice.status))>>,
                         normal_style),
               Spacer(20),
               Table(table_data(invoice, "Total Due:"),
                     [header_bg |-> "#06b6d4", text_color |-> "white",
                      header_font |-> "Helvetica-Bold",
                      total_color |-> "#06b6d4"])>>
          \o PayOnline(payment_link)
          \o Notes(invoice, normal_style))

(***************************************************************************)
(* Direct calls of the two generators.                                     *)
(***************************************************************************)
\* the stored documents as the generators read them: with their number and
\* their creation time
RenderQuotes ==
    {Set(quote_doc(1, QuoteCreate(b)),
         [quote_number |-> "QT-20260115-9F3A21C0", created_at |-> Now]) :
     b \in Bodies}

RenderInvoices ==
    {Set(invoice_doc(1, InvoiceCreate(b)),
         [invoice_number |-> "INV-20260115-4B7D02E6", created_at |-> Now]) :
     b \in Bodies}

\* no branding stored, the saved brandings, and one without colours
Brandings ==
    {<< >>, [company_name |-> "Acme"]} \cup BrandingSettings

\* the theme ids of the requests: the four named ones and two others
ThemeIds == (DOMAIN PDF_TEMPLATES) \cup {"corporate", "Professional"}

\* no link, and the link send_invoice_email builds
PaymentLinks == {NULL, "https://app.example.com/pay/1"}

RenderCall(fn, doc, branding, option) ==
    [fn |-> fn, doc |-> doc, branding |-> branding, option |-> option]

RenderCalls ==
    {RenderCall("generate_quote_pdf", q, b, t) :
        q \in RenderQuotes, b \in Brandings, t \in ThemeIds}
    \cup {RenderCall("generate_invoice_pdf", i, b, l) :
            i \in RenderInvoices, b \in Brandings, l \in PaymentLinks}

InitRenderCalls ==
    /\ InitBilling
    /\ variant = "backend"
    /\ InitTemplates
    /\ InitTotals
    /\ InitExpenses
    /\ InitDispatch
    /\ InitUsers
    /\ InitMail
    /\ InitRequests
    /\ InitBranding
    /\ render_args \in RenderCalls
    /\ render_result = << >>
    /\ download_response = NoDownloadResponse

call_generate_quote_pdf ==
    /\ render_args.fn = "generate_quote_pdf"
    /\ render_result' = generate_quote_pdf(render_args.doc, render_args.branding,
                                           render_args.option)
    /\ UNCHANGED <<render_args, download_response, billingVars, templateVars,
                   totalsVars, expenseVars, dispatchVars, userVars, mailVars,
                   requestVars, brandingVars>>

call_generate_invoice_pdf ==
    /\ render_args.fn = "generate_invoice_pdf"
    /\ render_result' = generate_invoice_pdf(render_args.doc,
                                             render_args.branding,
                                             render_args.option)
    /\ UNCHANGED <<render_args, download_response, billingVars, templateVars,
                   totalsVars, expenseVars, dispatchVars, userVars, mailVars,
                   requestVars, brandingVars>>

NextRender ==
    \/ call_generate_quote_pdf
    \/ call_generate_invoice_pdf

SpecRender == InitRenderCalls /\ [][NextRender]_vars

(***************************************************************************)
(* Document generation of src/docker-deploy/backend/server.py.             *)
(***************************************************************************)
\* 'N/A' for a missing, null or empty date
OrNA(v) == IF Truthy(v) THEN v ELSE "N/A"

\* the lines of the company under its name: address, phone, email
company_info(branding) ==
    (IF Truthy(Get(branding, "address", NULL))
     THEN <<Text(branding.address)>> ELSE << >>)
    \o (IF Truthy(Get(branding, "phone", NULL))
        THEN <<Text(branding.phone)>> ELSE << >>)
    \o (IF Truthy(Get(branding, "email", NULL))
        THEN <<Text(branding.email)>> ELSE << >>)

\* the flowables create_invoice_pdf and create_quote_pdf have in common
pdf_elements(doc, branding, color, title, number, section, date, footer) ==
    LET company == Get(branding, "company_name", "KyberBusiness")
    IN  <<Table(<<<<Text(company), Text(title)>>,
                  company_info(branding) \o <<Text(number)>>>>,
                [name |-> "header", textColor |-> color]),
          Spacer(20),
          Paragraph(<<Text(section)>>, [name |-> "SectionHeader"]),
          Paragraph(<<Text(doc.client_name)>>, [name |-> "ClientName"]),
          Paragraph(<<Text(doc.client_email)>>, [name |-> "Normal"])>>
        \o (IF Truthy(doc.client_address)
            THEN <<Paragraph(<<Text(doc.client_address)>>, [name |-> "Normal"])>>
            ELSE << >>)
        \o <<Spacer(20),
             Table(<<<<Text("Date:"), Text(Date(doc.created_at))>>,
                     <<Text(date[1]), Text(OrNA(date[2]))>>,
                     <<Text("Status:"), Text(Upper(doc.status))>>>>,
                   [name |-> "details"]),
             Spacer(20),
             Table(<<<<Text("Description"), Text("Qty"), Text("Price"),
                       Text("Total")>>>>
                   \o [i \in 1..Len(doc.items) |->
                         LET item == doc.items[i]
                         IN  <<Text(Get(item, "description", "")),
                               Str(Get(item, "quantity", 1)),
                               Money(Get(item, "price", 0)),
                               Money(Get(item, "quantity", 1)
                                     * Get(item, "price", 0))>>],
                   [name |-> "items", header_bg |-> color]),
             Spacer(20),
             Table(<<<<Text("Subtotal:"), Money(doc.subtotal)>>,
                     <<Text("Tax (10%):"), Money(doc.tax)>>,
                     <<Text("TOTAL:"), Money(doc.total)>>>>,
                   [name |-> "totals", total_color |-> color])>>
        \o (IF Truthy(doc.notes)
            THEN <<Spacer(30),
                   Paragraph(<<Text("NOTES")>>, [name |-> "SectionHeader"]),
                   Paragraph(<<Text(doc.notes)>>, [name |-> "Normal"])>>
            ELSE << >>)
        \o <<Spacer(40),
             Paragraph(<<Text(footer), Text(company)>>, [name |-> "Normal"])>>

\* hex_to_rgb raises on a string that is no hexadecimal colour
create_invoice_pdf(invoice, branding) ==
    LET primary_color == Get(branding, "primary_color", "#06b6d4")
    IN  IF ~ParsesAsHex(primary_color) THEN Raised
        ELSE Built(pdf_elements(invoice, branding, primary_color, "INVOICE",
                                invoice.invoice_number, "BILL TO",
                                <<"Due Date:", invoice.due_date>>,
                                "Thank you for your business!"))

create_quote_pdf(quote, branding) ==
    LET secondary_color == Get(branding, "secondary_color", "#d946ef")
    IN  IF ~ParsesAsHex(secondary_color) THEN Raised
        ELSE Built(pdf_elements(quote, branding, secondary_color, "QUOTE",
                                quote.quote_number, "PREPARED FOR",
                                <<"Valid Until:", quote.valid_until>>,
                                "Thank you for considering our services!"))

(***************************************************************************)
(* The download routes.  The stored records of this model leave out the    *)
(* number and the creation time; the generators read them, so a download   *)
(* hands the record over with both.                                        *)
(***************************************************************************)
StoredQuote(quote) ==
    Set(quote, [quote_number |-> "QT-20260115-9F3A21C0", created_at |-> Now])

StoredInvoice(invoice) ==
    Set(invoice, [invoice_number |-> "INV-20260115-4B7D02E6",
                  created_at |-> Now])

\* mutant: a failed generation is answered with a page that says so
Download_error_page(op, id, pdf) ==
    IF pdf.raised
    THEN DownloadResponse(op, id, 200,
                          <<Paragraph(<<Text("PDF generation failed")>>,
                                      [name |-> "Normal"])>>)
    ELSE DownloadResponse(op, id, 200, pdf.elements)

\* the generator raised: backend lets the exception through, docker turns
\* it into HTTPException(500); otherwise the document is the body
Download(op, id, pdf) ==
    IF pdf.raised THEN DownloadResponse(op, id, 500, << >>)
    ELSE DownloadResponse(op, id, 200, pdf.elements)

\* backend get_quote_pdf(quote_id, template), docker download_quote_pdf
get_quote_pdf(id, template) ==
    /\ variant = "docker" => template = "professional"
    /\ download_response' =
          IF id \notin DOMAIN quotes
          THEN DownloadResponse("get_quote_pdf", id, 404, << >>)
          ELSE Download("get_quote_pdf", id,
                        IF variant = "backend"
                        THEN generate_quote_pdf(StoredQuote(quotes[id]),
                                                BrandingData, template)
                        ELSE create_quote_pdf(StoredQuote(quotes[id]),
                                              BrandingData))
    /\ response' = NoResponse
    /\ UNCHANGED <<render_args, render_result, variant, quotes, invoices,
                   nextQuoteId, nextInvoiceId, settings, templateVars,
                   totalsVars, expenseVars, dispatchVars, userVars, mailVars,
                   requestVars, brandingVars>>

\* backend get_invoice_pdf; download_invoice_pdf of docker has no route
get_invoice_pdf(id) ==
    /\ variant = "backend"
    /\ download_response' =
          IF id \notin DOMAIN invoices
          THEN DownloadResponse("get_invoice_pdf", id, 404, << >>)
          ELSE Download("get_invoice_pdf", id,
                        generate_invoice_pdf(StoredInvoice(invoices[id]),
                                             BrandingData, NULL))
    /\ response' = NoResponse
    /\ UNCHANGED <<render_args, render_result, variant, quotes, invoices,
                   nextQuoteId, nextInvoiceId, settings, templateVars,
                   totalsVars, expenseVars, dispatchVars, userVars, mailVars,
                   requestVars, brandingVars>>

\* the theme ids of the download requests
DownloadThemes == {"professional", "minimal", "corporate"}

\* the records of this specification are created from one body
DocumentBodies == {BodyA}

NextDocuments ==
    \/ \E b \in DocumentBodies : create_quote(b)
    \/ \E b \in DocumentBodies : create_invoice(b)
    \/ \E d \in SMTPSettings : save_smtp_settings(d)
    \/ \E d \in BrandingSettings : save_branding_settings(d)
    \/ \E id \in QuoteIds, ok \in BOOLEAN : send_quote_email(id, ok)
    \/ \E id \in InvoiceIds, ok \in BOOLEAN : send_invoice_email(id, ok)
    \/ \E id \in QuoteIds, t \in DownloadThemes : get_quote_pdf(id, t)
    \/ \E id \in InvoiceIds : get_invoice_pdf(id)

SpecDocuments == Init /\ [][NextDocuments]_vars

(***************************************************************************)
(* send_invoice_email between its awaits: the find_one of the invoice, the *)
(* part from the settings reads to the return of aiosmtplib.send, and the  *)
(* update_one of the status.  Other requests run between the three.        *)
(***************************************************************************)
MaxPendingSends == 1

\* a send that has read its invoice; next is the await it goes on with
InvoiceSend(id, invoice, next) == [id |-> id, invoice |-> invoice, next |-> next]

\* invoice = await db.invoices.find_one({"id": invoice_id})
send_invoice_email_find_one(id) ==
    /\ IF id \in DOMAIN invoices
       THEN /\ BagCardinality(invoice_sends) < MaxPendingSends
            /\ invoice_sends' =
                  invoice_sends (+) SetToBag({InvoiceSend(id, invoices[id], "send")})
            /\ response' = NoResponse
       ELSE /\ invoice_sends' = invoice_sends
            /\ response' = Response("send_invoice_email", id, 404, "not called")
    /\ UNCHANGED <<variant, quotes, invoices, nextQuoteId, nextInvoiceId,
                   settings, registrations, templateVars, totalsVars,
                   expenseVars, dispatchVars, userVars, mailVars, renderVars,
                   brandingVars>>

\* the settings reads, the generator and aiosmtplib.send; the handler goes
\* on to update_one when the invoice it read was a draft
send_invoice_email_send(r, transport_ok) ==
    /\ r \in BagToSet(invoice_sends)
    /\ r.next = "send"
    /\ LET out == SendOutcome(r.invoice, InvoiceRenderFails(BrandingData),
                              transport_ok)
       IN  IF out[3] = << >>
           THEN /\ invoice_sends' = invoice_sends (-) SetToBag({r})
                /\ response' =
                      Response("send_invoice_email", r.id, out[1], out[2])
           ELSE /\ invoice_sends' =
                      (invoice_sends (-) SetToBag({r}))
                      (+) SetToBag({InvoiceSend(r.id, r.invoice, "update_one")})
                /\ response' = NoResponse
    /\ UNCHANGED <<variant, quotes, invoices, nextQuoteId, nextInvoiceId,
                   settings, registrations, templateVars, totalsVars,
                   expenseVars, dispatchVars, userVars, mailVars, renderVars,
                   brandingVars>>

\* await db.invoices.update_one({"id": invoice_id}, {"$set": {"status": "sent"}})
send_invoice_email_update_one(r) ==
    /\ r \in BagToSet(invoice_sends)
    /\ r.next = "update_one"
    /\ invoice_sends' = invoice_sends (-) SetToBag({r})
    /\ invoices' = IF r.id \in DOMAIN invoices
                   THEN update_one(invoices, r.id, StatusAfterSend(r.invoice))
                   ELSE invoices
    /\ response' = Response("send_invoice_email", r.id, 200, "delivered")
    /\ UNCHANGED <<variant, quotes, nextQuoteId, nextInvoiceId,
                   settings, registrations, templateVars, totalsVars,
                   expenseVars, dispatchVars, userVars, mailVars, renderVars,
                   brandingVars>>

\* the sends that can be between two awaits
InvoiceSends ==
    {InvoiceSend(id, invoice_doc(id, InvoiceCreate(b)), next) :
        id \in InvoiceIds, b \in Bodies, next \in {"send", "update_one"}}

NextInvoiceSend ==
    \/ \E b \in Bodies : create_invoice(b)
    \/ \E d \in SMTPSettings : save_smtp_settings(d)
    \/ \E d \in BrandingSettings : save_branding_settings(d)
    \/ \E id \in InvoiceIds, p \in PaymentIds : mark_invoice_paid(id, p)
    \/ \E id \in InvoiceIds : send_invoice_email_find_one(id)
    \/ \E r \in InvoiceSends, ok \in BOOLEAN : send_invoice_email_send(r, ok)
    \/ \E r \in InvoiceSends : send_invoice_email_update_one(r)

SpecInvoiceSend == Init /\ [][NextInvoiceSend]_vars

(***************************************************************************)
(* Repeated conversions of a quote.                                        *)
(***************************************************************************)
MaxConversions == 2

repeated_convert_quote_to_invoice(id) == convert_up_to(id, MaxConversions)

NextConvert ==
    \/ \E b \in Bodies : create_quote(b)
    \/ \E id \in QuoteIds, b \in Bodies : update_quote(id, b)
    \/ \E d \in SMTPSettings : save_smtp_settings(d)
    \/ \E id \in QuoteIds, ok \in BOOLEAN : send_quote_email(id, ok)
    \/ \E id \in QuoteIds : repeated_convert_quote_to_invoice(id)

SpecConvert == Init /\ [][NextConvert]_vars

(***************************************************************************)
(* The branding routes with the logo.                                      *)
(***************************************************************************)
\* the extensions of the uploaded files
LogoExtensions == {"png", "svg"}

\* logo_url = f"/uploads/{filename}" (backend), f"/api/uploads/{filename}"
\* (docker), with filename = f"company_logo.{file_ext}"
LogoUrl(file_ext) ==
    <<IF variant = "backend" THEN "/uploads/" ELSE "/api/uploads/",
      "company_logo.", file_ext>>

\* {"$set": {"data.logo_url": logo_url}} and {"$unset": {"data.logo_url": ""}}
\* on a stored branding document
SetLogo(doc, logo_url) ==
    [doc EXCEPT !.data = Set(doc.data, [logo_url |-> logo_url])]

UnsetLogo(doc) ==
    [doc EXCEPT !.data = [k \in (DOMAIN doc.data) \ {"logo_url"} |-> doc.data[k]]]

\* upload_logo: backend upserts the one field; docker inserts a document
\* with the default branding and the logo when none is stored
upload_logo(file_ext) ==
    /\ settings' =
          IF "branding" \in DOMAIN settings
          THEN [settings EXCEPT !["branding"] = SetLogo(@, LogoUrl(file_ext))]
          ELSE upsert_setting(settings, "branding",
                 [type |-> "branding",
                  data |-> IF variant = "backend"
                           THEN [logo_url |-> LogoUrl(file_ext)]
                           ELSE [company_name |-> "KyberBusiness",
                                 primary_color |-> "#06b6d4",
                                 secondary_color |-> "#d946ef",
                                 logo_url |-> LogoUrl(file_ext)]])
    /\ response' = NoResponse
    /\ UNCHANGED <<variant, quotes, invoices, nextQuoteId, nextInvoiceId,
                   templateVars, totalsVars, expenseVars, dispatchVars,
                   userVars, mailVars, renderVars, requestVars, brandingVars>>

\* delete_logo: update_one without upsert
delete_logo ==
    /\ settings' =
          IF "branding" \in DOMAIN settings
          THEN [settings EXCEPT !["branding"] = UnsetLogo(@)]
          ELSE settings
    /\ response' = NoResponse
    /\ UNCHANGED <<variant, quotes, invoices, nextQuoteId, nextInvoiceId,
                   templateVars, totalsVars, expenseVars, dispatchVars,
                   userVars, mailVars, renderVars, requestVars, brandingVars>>

\* data.get("logo_url") of the stored branding, None when nothing is stored
logo_url(coll) ==
    IF "branding" \in DOMAIN coll
    THEN Get(coll["branding"].data, "logo_url", << >>)
    ELSE << >>

\* get_branding_settings: the fields of the answer that this model stores
get_branding_settings ==
    /\ branding_response' =
          IF "branding" \notin DOMAIN settings
          THEN [configured |-> FALSE, company_name |-> "KyberBusiness",
                primary_color |-> "#06b6d4", secondary_color |-> "#d946ef",
                logo_url |-> << >>]
          ELSE LET data == settings["branding"].data
               IN  [configured |-> TRUE,
                    company_name |-> Get(data, "company_name", "KyberBusiness"),
                    primary_color |-> Get(data, "primary_color", "#06b6d4"),
                    secondary_color |-> Get(data, "secondary_color", "#d946ef"),
                    logo_url |-> logo_url(settings)]
    /\ UNCHANGED <<billingVars, templateVars, totalsVars, expenseVars,
                   dispatchVars, userVars, mailVars, renderVars, requestVars>>

NextBranding ==
    \/ \E d \in BrandingSettings : save_branding_settings(d)
    \/ \E e \in LogoExtensions : upload_logo(e)
    \/ delete_logo
    \/ get_branding_settings

SpecBranding == Init /\ [][NextBranding]_vars

(***************************************************************************)
(* Properties of the billing records.                                      *)
(***************************************************************************)
StoredDocuments ==
    {quotes[id] : id \in DOMAIN quotes} \cup {invoices[id] : id \in DOMAIN invoices}

Quantity(item) == IF "quantity" \in DOMAIN item THEN item.quantity ELSE 1
Price(item) == IF "price" \in DOMAIN item THEN item.price ELSE 0

\* the sum of quantity x price over a set of positions of the items
RECURSIVE LineSum(_, _)
LineSum(items, positions) ==
    IF positions = {} THEN 0
    ELSE LET i == CHOOSE j \in positions : TRUE
         IN  Quantity(items[i]) * Price(items[i]) + LineSum(items, positions \ {i})

Statuses == {"draft", "sent", "paid", "converted", "overdue"}

SendOps == {"send_quote_email", "send_invoice_email"}

\* the collection a send response is about, before and after the step
SentBefore == IF response'.op = "send_quote_email" THEN quotes ELSE invoices
SentAfter == IF response'.op = "send_quote_email" THEN quotes' ELSE invoices'

\* C1: every stored quote and invoice has subtotal = the sum of quantity x
\* price over its stored items, tax = 10% of subtotal, total = subtotal + tax.
C1_StoredTotalsConsistent ==
    \A d \in StoredDocuments :
        /\ d.subtotal = LineSum(d.items, 1..Len(d.items))
        /\ 10 * d.tax = d.subtotal
        /\ d.total = d.subtotal + d.tax

\* a paid invoice made by converting a quote (its due date is empty), with
\* the three items of ItemsB, next to the converted quote
C1_Witness ==
    /\ \E id \in DOMAIN invoices :
          /\ invoices[id].status = "paid"
          /\ invoices[id].items = ItemsB
          /\ invoices[id].due_date = NULL
          /\ invoices[id].total = 5489
    /\ \E id \in DOMAIN quotes : quotes[id].status = "converted"

\* C3: a send whose transport call succeeds leaves the record with status
\* sent if its status was draft and with its status unchanged otherwise (so a
\* second send finds sent and writes nothing).
C3_SendMarksOnlyDrafts ==
    [][(response'.op \in SendOps /\ response'.transport = "delivered") =>
         /\ response'.code = 200
         /\ response'.id \in DOMAIN SentBefore
         /\ SentAfter =
              [SentBefore EXCEPT ![response'.id].status =
                  IF @ = "draft" THEN "sent" ELSE @]]_vars

\* a delivered send of an invoice that was not draft and is still paid, after
\* a delivered send of a draft quote that made it sent
C3_Witness ==
    /\ response.op = "send_invoice_email"
    /\ response.transport = "delivered"
    /\ response.id \in DOMAIN invoices
    /\ invoices[response.id].status = "paid"
    /\ \E id \in DOMAIN quotes :
          quotes[id].status = "sent" /\ quotes[id].client_name = "Acme"

\* C4: with no SMTP settings stored, a send for an existing record returns
\* 400, calls no transport and leaves every stored record as it was.
C4_NotConfigured ==
    [][(response'.op \in SendOps /\ "smtp" \notin DOMAIN settings
          /\ response'.id \in DOMAIN SentBefore) =>
         /\ response'.code = 400
         /\ response'.transport = "not called"
         /\ quotes' = quotes
         /\ invoices' = invoices]_vars

\* C5: a send whose transport call fails returns 500 and changes no stored
\* record: a draft stays draft.
C5_TransportFailure ==
    [][(response'.op \in SendOps /\ response'.transport = "failed") =>
         /\ response'.code = 500
         /\ quotes' = quotes
         /\ invoices' = invoices]_vars

\* a failed send of an invoice that is still draft
C5_Witness ==
    /\ response.op = "send_invoice_email"
    /\ response.transport = "failed"
    /\ response.code = 500
    /\ response.id \in DOMAIN invoices
    /\ invoices[response.id].status = "draft"

\* C6: once a quote is converted, no later operation on it gives it another
\* status.
C6_ConvertedIsFinal ==
    [][\A id \in (DOMAIN quotes) \cap (DOMAIN quotes') :
          quotes[id].status = "converted" => quotes'[id].status = "converted"]_vars

\* the documents a create request stored in this step (a conversion stores
\* its invoice through convert_quote_to_invoice, not through a create)
CreatedInStep ==
    {quotes'[id] : id \in (DOMAIN quotes') \ (DOMAIN quotes)}
    \cup (IF response'.op = "convert_quote_to_invoice" THEN {}
          ELSE {invoices'[id] : id \in (DOMAIN invoices') \ (DOMAIN invoices)})

\* C7: a document has status draft right after its create, whatever status
\* the request carries.
C7_CreatedAsDraft ==
    [][\A d \in CreatedInStep : d.status = "draft"]_vars

\* C8: the status of every stored quote and invoice is one of draft, sent,
\* paid, converted, overdue.
C8_StatusInSet ==
    \A d \in StoredDocuments : d.status \in Statuses

Defaults == {i \in DOMAIN email_templates : email_templates[i].is_default}

StoredTemplateIds == {email_templates[i].id : i \in DOMAIN email_templates}

\* every built-in template is stored and no seeding is under way
Seeded ==
    /\ \A k \in DOMAIN DEFAULT_TEMPLATES :
          DEFAULT_TEMPLATES[k].id \in StoredTemplateIds
    /\ \A r \in BagToSet(template_requests) : r.op # "list_email_templates"

\* C9: once the store is seeded, whenever no template request is under way
\* exactly one stored template has is_default = TRUE.
C9_ExactlyOneDefault ==
    (Seeded /\ template_requests = EmptyBag) => Cardinality(Defaults) = 1

\* C10: no state has two templates with is_default = TRUE, however the
\* set-default requests for the templates interleave.
C10_SetDefaultAtomic ==
    Cardinality(Defaults) <= 1

BuiltInIds == {DEFAULT_TEMPLATES[k].id : k \in DOMAIN DEFAULT_TEMPLATES}

\* the documents stored under the built-in ids, in store order
StoredBuiltIns == SelectSeq(email_templates, LAMBDA t : t.id \in BuiltInIds)

\* C11: a delete request for an id under which a built-in template is stored
\* is answered 400 and leaves the store as it was, and no step removes a
\* document stored under a built-in id.
C11_BuiltInNotDeletable ==
    [][/\ (/\ template_response'.op = "delete_email_template"
            /\ template_response'.id \in BuiltInIds \cap StoredTemplateIds) =>
               /\ template_response'.code = 400
               /\ email_templates' = email_templates
               /\ template_requests' = template_requests
       /\ Len(SelectSeq(email_templates', LAMBDA t : t.id \in BuiltInIds))
             >= Len(StoredBuiltIns)]_vars

\* a refused delete of the built-in template that is the default, with a
\* custom template stored
C11_Witness ==
    /\ template_response.op = "delete_email_template"
    /\ template_response.id = "default-modern"
    /\ template_response.code = 400
    /\ Len(email_templates) = Len(DEFAULT_TEMPLATES) + 1
    /\ \E i \in DOMAIN email_templates :
          email_templates[i].id = "default-modern" /\ email_templates[i].is_default

\* the built-in template with this id, as seeded
Seed(id) ==
    DEFAULT_TEMPLATES[CHOOSE k \in DOMAIN DEFAULT_TEMPLATES :
                          DEFAULT_TEMPLATES[k].id = id]

\* C12: every template stored under a built-in id has the name, theme,
\* subject and body it was seeded with.
C12_BuiltInImmutable ==
    \A i \in DOMAIN email_templates :
        LET t == email_templates[i]
        IN  t.id \in BuiltInIds =>
                /\ t.name = Seed(t.id).name
                /\ t.theme = Seed(t.id).theme
                /\ t.subject = Seed(t.id).subject
                /\ t.body_html = Seed(t.id).body_html

FiveBuiltInIds ==
    <<"default-professional", "default-modern", "default-minimal",
      "default-bold", "default-classic">>

\* the seeding requests that this step started
SeedingStarted ==
    {r \in BagToSet(template_requests') \ BagToSet(template_requests) :
        r.op = "list_email_templates" /\ r.next = 1}

\* C13: with the requests one at a time, a list request starts to insert
\* built-in templates only when it read an empty store, and the read itself
\* writes nothing; a built-in template is only ever inserted as the next one
\* of the five into a store that holds the ones before it and nothing else;
\* a list that answers 200 returns the store as it then is, never an empty
\* list; and when it inserted, the store is the five built-ins in order with
\* default-professional the only default.
C13_SeedsWhenEmpty ==
    [][/\ SeedingStarted # {} =>
             email_templates = << >> /\ email_templates' = << >>
       /\ Len(StoredBuiltIns') > Len(StoredBuiltIns) =>
             \E r \in BagToSet(template_requests) :
                 /\ r.op = "list_email_templates"
                 /\ email_templates = SubSeq(DEFAULT_TEMPLATES, 1, r.next - 1)
                 /\ email_templates' = SubSeq(DEFAULT_TEMPLATES, 1, r.next)
       /\ (/\ template_response'.op = "list_email_templates"
            /\ template_response'.code = 200) =>
               /\ template_response'.body = email_templates'
               /\ template_response'.body # << >>
               /\ email_templates' # email_templates =>
                     /\ [i \in DOMAIN email_templates' |->
                            email_templates'[i].id] = FiveBuiltInIds
                     /\ Defaults' = {1}]_vars

\* a list that returns six templates: the five that an earlier list inserted
\* into the empty store and a custom one created since
C13_Witness ==
    /\ template_response.op = "list_email_templates"
    /\ template_response.code = 200
    /\ Len(template_response.body) = 6
    /\ SubSeq(email_templates, 1, 5) = DEFAULT_TEMPLATES
    /\ email_templates[6].id \notin BuiltInIds

\* the request that this step answered names a category that is not stored,
\* or a non-empty vendor that is not stored
NamesMissingReference ==
    \/ expense_response'.category_id \notin DOMAIN categories
    \/ /\ Truthy(expense_response'.vendor_id)
       /\ expense_response'.vendor_id \notin DOMAIN vendors

\* C14: a create_expense or update_expense request whose category_id names
\* no stored category, or whose non-empty vendor_id names no stored vendor,
\* is answered 400 and leaves db.expenses as it was.
C14_ReferencesValidated ==
    [][(/\ expense_response'.op \in {"create_expense", "update_expense"}
        /\ NamesMissingReference) =>
           /\ expense_response'.code = 400
           /\ expenses' = expenses]_vars

\* the items and the stored amounts of a quote or invoice
Amounts(doc) == <<doc.items, doc.subtotal, doc.tax, doc.total>>

\* a step of a send, of a conversion or of mark_invoice_paid
StatusOnlyStep ==
    \/ response'.op \in SendOps
    \/ response'.op = "convert_quote_to_invoice"
    \/ /\ response'.op = "none"
       /\ invoices' # invoices
       /\ \E id \in InvoiceIds, payment_id \in PaymentIds :
             mark_invoice_paid(id, payment_id)

\* C15: a send, mark_invoice_paid and a conversion keep every quote and
\* invoice that was stored before the step, with its items, subtotal, tax
\* and total as they were.
C15_StatusOnlyKeepsAmounts ==
    [][StatusOnlyStep =>
          /\ \A id \in DOMAIN quotes :
                /\ id \in DOMAIN quotes'
                /\ Amounts(quotes'[id]) = Amounts(quotes[id])
          /\ \A id \in DOMAIN invoices :
                /\ id \in DOMAIN invoices'
                /\ Amounts(invoices'[id]) = Amounts(invoices[id])]_vars

\* a delivered invoice mail for an invoice that came from a conversion and
\* was paid: all three status writes have happened and the amounts are the
\* ones of the quote
C15_Witness ==
    /\ response.op = "send_invoice_email"
    /\ response.code = 200
    /\ response.id \in DOMAIN invoices
    /\ invoices[response.id].status = "paid"
    /\ \E q \in DOMAIN quotes :
          /\ quotes[q].status = "converted"
          /\ Amounts(quotes[q]) = Amounts(invoices[response.id])
          /\ quotes[q].total > 0

CopiedFields ==
    {"client_name", "client_email", "client_address", "items", "notes",
     "subtotal", "tax", "total"}

\* C16: a conversion of a stored quote answers 200, adds exactly one invoice,
\* which has the client fields, items, notes and amounts of the quote, status
\* draft, and null due_date and payment_link, keeps the invoices stored
\* before, and changes nothing of the quotes but the status of this one, to
\* converted; a conversion of an id under which no quote is stored answers
\* 404 and changes neither quotes nor invoices.
C16_Conversion ==
    [][response'.op = "convert_quote_to_invoice" =>
          LET id == response'.id
              new == (DOMAIN invoices') \ (DOMAIN invoices)
          IN  IF id \in DOMAIN quotes
              THEN /\ response'.code = 200
                   /\ Cardinality(new) = 1
                   /\ \A n \in new :
                         /\ \A f \in CopiedFields :
                               invoices'[n][f] = quotes[id][f]
                         /\ invoices'[n].status = "draft"
                         /\ invoices'[n].due_date = NULL
                         /\ invoices'[n].payment_link = NULL
                   /\ \A n \in DOMAIN invoices :
                         n \in DOMAIN invoices' /\ invoices'[n] = invoices[n]
                   /\ quotes' = [quotes EXCEPT ![id].status = "converted"]
              ELSE /\ response'.code = 404
                   /\ invoices' = invoices
                   /\ quotes' = quotes]_vars

\* a converted quote that had been stored as cancelled, next to its invoice
C16_Witness ==
    /\ response.op = "convert_quote_to_invoice"
    /\ response.code = 200
    /\ quotes[response.id].status = "converted"
    /\ quotes[response.id].client_name = "Bolt"
    /\ \E n \in DOMAIN invoices :
          /\ invoices[n].status = "draft"
          /\ invoices[n].client_name = "Bolt"
          /\ invoices[n].items = ItemsB

\* C17: a step makes at most one transport call, and only as part of a send
\* request; the transport calls counted never exceed the send requests that
\* passed the configuration check.
C17_OneTransportCallPerSend ==
    [][/\ send_requests' - send_requests \in {0, 1}
       /\ transport_calls' - transport_calls \in {0, 1}
       /\ transport_calls' - transport_calls <= send_requests' - send_requests
       /\ transport_calls' <= checked_sends']_vars

\* requests of all three kinds: one stopped before the configuration check
\* was passed, one that passed it and made no transport call, one that called
\* the transport and failed
C17_Witness ==
    /\ send_requests > checked_sends
    /\ checked_sends > transport_calls
    /\ response.op \in SendOps
    /\ response.transport = "failed"

\* the roles that a guarded handler lets through
AllowedRoles(op) ==
    IF op \in {"update_user_role", "delete_user", "save_branding_settings"}
    THEN {"admin"}
    ELSE {"admin", "accountant"}

GuardedOps ==
    {"update_user_role", "delete_user", "save_branding_settings",
     "create_category"}

Collections ==
    <<users, quotes, invoices, settings, expenses, categories, vendors,
      email_templates>>

\* C18: a request to a guarded handler whose token names no stored user is
\* answered 401, one whose user has a stored role that the guard does not
\* allow is answered 403, and both leave every collection as it was; a
\* request of a user whose stored role the guard allows is answered neither
\* 401 nor 403.  The role in the token plays no part.
C18_StoredRoleDecides ==
    [][user_response'.op \in GuardedOps =>
          LET r == user_response'
          IN  IF r.sub \notin DOMAIN users
              THEN r.code = 401 /\ Collections' = Collections
              ELSE IF users[r.sub].role \notin AllowedRoles(r.op)
              THEN r.code = 403 /\ Collections' = Collections
              ELSE r.code \notin {401, 403}]_vars

\* a user registered as admin and since made a viewer is refused with the
\* token that still says admin
C18_Witness ==
    /\ user_response.op = "save_branding_settings"
    /\ user_response.code = 403
    /\ user_response.sub \in DOMAIN users
    /\ \E token \in tokens :
          token.sub = user_response.sub /\ token.role = "admin"
    /\ users[user_response.sub].role = "viewer"

\* C19: a registration that answers 200 stores one new user and changes no
\* other; the new user has role admin if its email ends with
\* @thestarforge.org and role viewer if not, and so never role accountant.
C19_RegisterRole ==
    [][(user_response'.op = "register" /\ user_response'.code = 200) =>
          LET new == (DOMAIN users') \ (DOMAIN users)
          IN  /\ Cardinality(new) = 1
              /\ \A id \in DOMAIN users : users'[id] = users[id]
              /\ \A id \in new :
                    /\ users'[id].role # "accountant"
                    /\ users'[id].role =
                          IF EndsWith(users'[id].email,
                                      <<"@", "thestarforge.org">>)
                          THEN "admin" ELSE "viewer"]_vars

\* a registration with an address that ends with the name of the domain but
\* not with @thestarforge.org, next to an admin
C19_Witness ==
    /\ user_response.op = "register"
    /\ user_response.code = 200
    /\ \E id \in DOMAIN users :
          /\ users[id].email = <<"eve", "@", "not", "thestarforge.org">>
          /\ users[id].role = "viewer"
    /\ \E id \in DOMAIN users : users[id].role = "admin"

\* C20: two observed sends that read the same records and settings, with the
\* same request and the same outcome of the transport, have the same HTTP
\* status, the same call of the transport, the same message (recipient,
\* subject, body and attachment) and leave the same record, whatever
\* db.email_templates holds at the two sends.
C20_SendIgnoresTemplates ==
    (/\ remembered # << >>
     /\ observed # << >>
     /\ remembered.input = observed.input) =>
        /\ remembered.code = observed.code
        /\ remembered.transport = observed.transport
        /\ remembered.message = observed.message
        /\ remembered.record = observed.record

\* two delivered quote mails for the same stored quote, the first sent
\* while default-professional was the default template, the second while
\* default-modern was, after default-professional had been rewritten
C20_Witness ==
    /\ remembered # << >>
    /\ observed # << >>
    /\ remembered.input = observed.input
    /\ observed.input.op = "send_quote_email"
    /\ observed.code = 200
    /\ remembered.templates = {"default-professional"}
    /\ observed.templates = {"default-modern"}
    /\ \E i \in DOMAIN email_templates :
          /\ email_templates[i].id = "default-professional"
          /\ email_templates[i].name = "Reminder"

(***************************************************************************)
(* Properties of the generated documents.                                  *)
(***************************************************************************)
NamedThemes == DOMAIN PDF_TEMPLATES

QuoteRendered ==
    render_result # << >> /\ render_args.fn = "generate_quote_pdf"

InvoiceRendered ==
    render_result # << >> /\ render_args.fn = "generate_invoice_pdf"

\* the colour generate_quote_pdf parses for the theme professional
ProfessionalColor(branding) ==
    IF branding # << >> THEN Get(branding, "primary_color", "#06b6d4")
    ELSE "#06b6d4"

\* C21: generate_quote_pdf called with a theme id that is none of
\* professional, modern, classic, minimal builds what it builds for the same
\* quote and branding with the theme professional: the same blocks in the
\* same order with the same colours and fonts; it raises only when the call
\* with professional raises too, which is when the primary colour of the
\* branding is no hexadecimal colour.
C21_FallbackTheme ==
    (QuoteRendered /\ render_args.option \notin NamedThemes) =>
        /\ render_result = generate_quote_pdf(render_args.doc,
                                              render_args.branding,
                                              "professional")
        /\ ParsesAsHex(ProfessionalColor(render_args.branding))
              => ~render_result.raised

\* a quote built with the theme id corporate, where the themes minimal and
\* classic would have built something else
C21_Witness ==
    /\ QuoteRendered
    /\ render_args.option = "corporate"
    /\ ~render_result.raised
    /\ Len(render_result.elements) > 8
    /\ render_result # generate_quote_pdf(render_args.doc, render_args.branding,
                                          "minimal")
    /\ render_result # generate_quote_pdf(render_args.doc, render_args.branding,
                                          "classic")

\* the positions of the paragraphs that start with a label, and of the table
At(label) ==
    {i \in DOMAIN render_result.elements :
        /\ render_result.elements[i].kind = "Paragraph"
        /\ render_result.elements[i].rows[1][1].s = label}

Tables ==
    {i \in DOMAIN render_result.elements :
        render_result.elements[i].kind = "Table"}

\* the labels of the last three rows of a table
TotalsLabels(table) ==
    [k \in 1..3 |-> table.rows[Len(table.rows) - 3 + k][3].s]

\* C22: the blocks of a generated invoice are, in this order, the title with
\* the company name, the heading with the invoice number, the party
\* paragraphs, the one table with the items and the rows Subtotal, Tax and
\* Total, the notes when the invoice has notes and the payment link when
\* one is given; the payment link never comes before the notes.
C22_InvoiceBlockOrder ==
    InvoiceRendered =>
        /\ ~render_result.raised
        /\ render_result.elements[1].style.name = "Title"
        /\ At("INVOICE: ") = {2}
        /\ At("Bill To:") # {}
        /\ Cardinality(Tables) = 1
        /\ \A t \in Tables :
              /\ \A p \in At("Bill To:") \cup At("Email:") \cup At("Status:") :
                    2 < p /\ p < t
              /\ TotalsLabels(render_result.elements[t])
                    = <<"Subtotal:", "Tax (10%):", "Total Due:">>
              /\ \A n \in At("Notes:") \cup At("Pay Online:") : t < n
        /\ (At("Notes:") # {}) <=> Truthy(render_args.doc.notes)
        /\ (At("Pay Online:") # {}) <=> Truthy(render_args.option)
        /\ \A n \in At("Notes:"), p \in At("Pay Online:") : n < p

\* the generator of a send or download request was reached: backend sends
\* test the SMTP settings first, the other requests start with it
GenerationReached(op) ==
    op \in SendOps /\ variant = "backend" => SmtpConfigured

\* C23: a send request whose document generation raises answers 500, calls
\* the mail transport not at all and leaves the quotes and invoices as they
\* were; a download request whose generation raises answers 500 with no
\* document in the body, and a download that has a document in the body
\* answered 200 with the generator returning normally.
C23_RenderFailure ==
    [][/\ \A id \in QuoteIds, ok \in BOOLEAN :
            (/\ send_quote_email(id, ok)
             /\ id \in DOMAIN quotes
             /\ QuoteRenderFails(BrandingData)
             /\ GenerationReached("send_quote_email")) =>
                /\ response'.code = 500
                /\ response'.transport = "not called"
                /\ quotes' = quotes /\ invoices' = invoices
       /\ \A id \in InvoiceIds, ok \in BOOLEAN :
            (/\ send_invoice_email(id, ok)
             /\ id \in DOMAIN invoices
             /\ InvoiceRenderFails(BrandingData)
             /\ GenerationReached("send_invoice_email")) =>
                /\ response'.code = 500
                /\ response'.transport = "not called"
                /\ quotes' = quotes /\ invoices' = invoices
       /\ \A id \in QuoteIds, t \in DownloadThemes :
            (get_quote_pdf(id, t) /\ id \in DOMAIN quotes) =>
                /\ QuoteRenderFails(BrandingData) =>
                      /\ download_response'.code = 500
                      /\ download_response'.content = << >>
                /\ download_response'.content # << >> =>
                      /\ download_response'.code = 200
                      /\ ~QuoteRenderFails(BrandingData)
       /\ \A id \in InvoiceIds :
            (get_invoice_pdf(id) /\ id \in DOMAIN invoices) =>
                /\ InvoiceRenderFails(BrandingData) =>
                      /\ download_response'.code = 500
                      /\ download_response'.content = << >>
                /\ download_response'.content # << >> =>
                      /\ download_response'.code = 200
                      /\ ~InvoiceRenderFails(BrandingData)
      ]_vars

\* with SMTP settings stored and a branding colour that is no hexadecimal
\* colour, a send of a draft quote and a download of it have both failed,
\* and the quote is still a draft
C23_Witness ==
    /\ SmtpConfigured
    /\ QuoteRenderFails(BrandingData)
    /\ response.op = "send_quote_email"
    /\ response.code = 500
    /\ response.transport = "not called"
    /\ response.id \in DOMAIN quotes
    /\ quotes[response.id].status = "draft"
    /\ download_response.op = "get_quote_pdf"
    /\ download_response.code = 500
    /\ download_response.content = << >>

\* C24: in both server files a send for an existing record, made while no
\* SMTP configuration is stored and while the generator would raise on the
\* stored branding, answers 400: the configuration is looked at before the
\* document is generated and before the dispatch routine is called.
C24_CheckBeforeRender ==
    [][/\ \A id \in QuoteIds, ok \in BOOLEAN :
            (/\ send_quote_email(id, ok)
             /\ id \in DOMAIN quotes
             /\ ~SmtpConfigured
             /\ QuoteRenderFails(BrandingData)) =>
                response'.code = 400 /\ response'.transport = "not called"
       /\ \A id \in InvoiceIds, ok \in BOOLEAN :
            (/\ send_invoice_email(id, ok)
             /\ id \in DOMAIN invoices
             /\ ~SmtpConfigured
             /\ InvoiceRenderFails(BrandingData)) =>
                response'.code = 400 /\ response'.transport = "not called"
      ]_vars

\* C25: the status write of a send request leaves every invoice that is
\* paid in status paid, also when the invoice was marked paid after the
\* send had read it as a draft.
C25_SendKeepsPaid ==
    [][\A r \in BagToSet(invoice_sends) :
          send_invoice_email_update_one(r) =>
              \A id \in DOMAIN invoices :
                  invoices[id].status = "paid" => invoices'[id].status = "paid"
      ]_vars

\* C26: no two stored users have the same email address, whatever the
\* interleaving of the register requests.
C26_UniqueEmail ==
    \A i \in DOMAIN users, j \in DOMAIN users :
        users[i].email = users[j].email => i = j

\* C27: a save_branding_settings request leaves the stored logo_url as it
\* was, so get_branding_settings returns the uploaded logo_url after it as
\* before it.
C27_SaveKeepsLogo ==
    [][\A d \in BrandingSettings :
          save_branding_settings(d) => logo_url(settings') = logo_url(settings)
      ]_vars

\* the items and amounts a conversion copies
Billed(doc) == <<doc.items, doc.subtotal, doc.tax, doc.total>>

\* C28: a conversion of a stored quote answers 200 whatever the status of
\* the quote, also when it is converted already: it stores one further
\* invoice under an id no invoice had, with the items and amounts of the
\* quote, keeps the invoices stored before, and leaves the quote in status
\* converted; so after n conversions of a quote n invoices with its items
\* and amounts are stored.
C28_RepeatedConversion ==
    [][\A id \in QuoteIds :
          (repeated_convert_quote_to_invoice(id) /\ id \in DOMAIN quotes) =>
              LET new == (DOMAIN invoices') \ (DOMAIN invoices)
              IN  /\ response'.code = 200
                  /\ Cardinality(new) = 1
                  /\ Cardinality(DOMAIN invoices')
                        = Cardinality(DOMAIN invoices) + 1
                  /\ \A n \in new : Billed(invoices'[n]) = Billed(quotes[id])
                  /\ \A n \in DOMAIN invoices : invoices'[n] = invoices[n]
                  /\ quotes'[id].status = "converted"
                  /\ Billed(quotes'[id]) = Billed(quotes[id])
      ]_vars

\* a quote converted twice: two invoices with its items and amounts, the
\* quote in status converted
C28_Witness ==
    /\ response.op = "convert_quote_to_invoice"
    /\ response.code = 200
    /\ response.id \in DOMAIN quotes
    /\ quotes[response.id].status = "converted"
    /\ Cardinality(DOMAIN invoices) = 2
    /\ \A n \in DOMAIN invoices :
          Billed(invoices[n]) = Billed(quotes[response.id])
    /\ \A n \in DOMAIN invoices, m \in DOMAIN invoices :
          invoices[n].id = invoices[m].id => n = m

\* C29: no built-in template id is stored twice, also when two
\* list_email_templates requests have both read the empty store before
\* either has inserted.
C29_BuiltInsStoredOnce ==
    \A id \in BuiltInIds : Cardinality(Matching(email_templates, id)) <= 1

\* C30: the category_id of every stored expense names a stored category,
\* also after delete_category on a category that expenses refer to.
C30_CategoryExists ==
    \A id \in DOMAIN expenses :
        expenses[id].category_id \in DOMAIN categories

====
